---- MODULE Spec2Model ----
(***************************************************************************)
(* Operation registry and single-shot stdio invocation protocol of the     *)
(* jarbles framework: Extension (compound unit: actions, commands) and     *)
(* Assistant (simple unit: tools).                                         *)
(*                                                                         *)
(* A Go string is a sequence of one-character strings.  Literal text that  *)
(* the code itself emits (a format's fixed words, JSON punctuation) is a   *)
(* single multi-character element; it never contains '%', a newline or a   *)
(* carriage return, so the scanner and fmt operators below treat it as     *)
(* ordinary text.                                                          *)
(***************************************************************************)
EXTENDS Integers, Sequences, FiniteSets, TLC

VARIABLES
    unit,        \* which kind of unit the process is: "extension" | "assistant"
    ext,         \* Extension{Id, Name, Description}
    actions,     \* Extension.actions : map id -> ExtensionAction
    commands,    \* Extension.commands: map id -> ExtensionCommand
    tools,       \* Assistant.actions : map name -> Action
    toolList,    \* Assistant.description.Tools, in append order
    nreg,        \* number of registration calls made so far (also names the handlers)
    history,     \* the registration calls made so far: <<[kind, id, raw, cron, fn]>>,
                 \* id the key the entry was stored under, raw and cron the arguments
    pc,          \* position of the process in main / Respond / Execute
    input,       \* the bytes the reader delivers before end-of-stream or failure
    readFail,    \* the reader ends with an error instead of io.EOF
    rest,        \* bytes the scanner has not consumed yet
    operationId, \* Execute's local operationId
    lines,       \* Execute's local lines
    payload,     \* Execute's local payload
    target,      \* what route resolved operationId to
    routed,      \* what route returned: [output, err]
    output,      \* the string Execute returns
    err,         \* the error Execute returns
    calls,       \* every handler invocation so far: <<[fn, payload]>>
    returned,    \* what the invoked handler returned
    stdout,      \* bytes written to standard output
    stderr,      \* bytes written to standard error
    exitStatus,  \* the exit status of the process
    cards,       \* the cards of an Extension, in the order AddCard appended them
    config,      \* the config file of an Assistant: [exists, data]
    cmd,         \* the external command a handler runs, and its child process
    logState     \* the log file: "unopened" | "open" | "closed"

vars == <<unit, ext, actions, commands, tools, toolList, cards, nreg, history, pc, input, readFail,
          rest, operationId, lines, payload, target, routed, output, err, calls,
          returned, stdout, stderr, exitStatus, cmd, config, logState>>

registryVars == <<unit, ext, actions, commands, tools, toolList, cards, nreg, history>>
requestVars  == <<input, readFail, rest, operationId, lines, payload, target>>
resultVars   == <<routed, output, err, calls, returned>>
channelVars  == <<stdout, stderr, exitStatus, cmd, config>>

-----------------------------------------------------------------------------
(* Bounds of the model *)

MaxRegs == 2          \* registration calls before Respond
MaxPayloadLen == 4    \* bytes of a payload handed to the Payload helper
MaxStreamLen == 5     \* bytes of an arbitrary request stream
MaxNameLen == 3       \* characters of a unit name handed to NewExtension
MaxSegs == 3          \* segments of a directory or file name in a request
MaxChildOut == 3      \* bytes a child process writes to its standard output
MaxBuildRegs == 3     \* registration calls of a program that only builds a registry
MaxSets == 2          \* ConfigSet calls on one config file

-----------------------------------------------------------------------------
(* Strings *)

NL == "\n"
CR == "\r"

Describe == <<"d", "e", "s", "c", "r", "i", "b", "e">>

Lowers == <<"a","b","c","d","e","f","g","h","i","j","k","l","m",
            "n","o","p","q","r","s","t","u","v","w","x","y","z">>
Uppers == <<"A","B","C","D","E","F","G","H","I","J","K","L","M",
            "N","O","P","Q","R","S","T","U","V","W","X","Y","Z">>
Digits == <<"0","1","2","3","4","5","6","7","8","9">>

Range(s) == {s[i] : i \in DOMAIN s}

(* a code point outside ASCII, named: U+212A KELVIN SIGN, whose lower case
   is the ASCII letter k *)
KelvinSign == "U+212A"

(* strings.ToLower, one character *)
ToLowerChar(c) ==
    IF \E i \in DOMAIN Uppers : Uppers[i] = c
    THEN Lowers[CHOOSE i \in DOMAIN Uppers : Uppers[i] = c]
    ELSE IF c = KelvinSign THEN "k"
    ELSE c

(* strings.ReplaceAll(s, " ", "-"), one character *)
SpaceToHyphen(c) == IF c = " " THEN "-" ELSE c

(* strings.ToLower *)
ToLower(str) == [i \in DOMAIN str |-> ToLowerChar(str[i])]

(* strings.ReplaceAll(str, " ", "-") *)
ReplaceSpaces(str) == [i \in DOMAIN str |-> SpaceToHyphen(str[i])]

(* the characters the regexp [^a-zA-Z0-9\-]+ leaves in place *)
SlugChars == Range(Lowers) \cup Range(Uppers) \cup Range(Digits) \cup {"-"}

(* the mutant: slugify without strings.ToLower *)
slugifyNoLower(str) ==
    SelectSeq(ReplaceSpaces(str), LAMBDA c : c \in SlugChars)

slugify(str) ==
    SelectSeq(ReplaceSpaces(ToLower(str)), LAMBDA c : c \in SlugChars)

(* strings.Join(elems, "\n") *)
RECURSIVE JoinNL(_)
JoinNL(elems) ==
    IF elems = <<>> THEN <<>>
    ELSE IF Len(elems) = 1 THEN elems[1]
    ELSE elems[1] \o <<NL>> \o JoinNL(Tail(elems))

-----------------------------------------------------------------------------
(* bufio.Scanner with the default split function bufio.ScanLines, as       *)
(* Execute drives it.  The reader delivers `input` and then ends, with     *)
(* io.EOF or with an error; in both cases the scanner hands the split      *)
(* function what it holds with atEOF = TRUE, so the tokens are the same    *)
(* and only Err() differs.  A line the 64 KiB token buffer cannot hold     *)
(* sets the sticky error as a failing read does.                           *)

(* dropCR: a terminal \r is dropped from the token *)
dropCR(data) ==
    IF Len(data) > 0 /\ data[Len(data)] = CR THEN SubSeq(data, 1, Len(data) - 1) ELSE data

NewlineAt(data) == {i \in DOMAIN data : data[i] = NL}

FirstNewline(data) == CHOOSE i \in NewlineAt(data) : \A j \in NewlineAt(data) : i <= j

(* the mutant: a split function that keeps the carriage return *)
ScanLinesKeepCR(data) ==
    IF data = <<>> THEN [advance |-> 0, token |-> <<>>, ok |-> FALSE]
    ELSE IF NewlineAt(data) # {}
    THEN [advance |-> FirstNewline(data),
          token   |-> SubSeq(data, 1, FirstNewline(data) - 1),
          ok      |-> TRUE]
    ELSE [advance |-> Len(data), token |-> data, ok |-> TRUE]

(* bufio.ScanLines on everything the reader delivers *)
ScanLines(data) ==
    IF data = <<>> THEN [advance |-> 0, token |-> <<>>, ok |-> FALSE]
    ELSE IF NewlineAt(data) # {}
    THEN [advance |-> FirstNewline(data),
          token   |-> dropCR(SubSeq(data, 1, FirstNewline(data) - 1)),
          ok      |-> TRUE]
    ELSE [advance |-> Len(data), token |-> dropCR(data), ok |-> TRUE]

(* one scanner.Scan(): whether a token was found, scanner.Text(), what is left *)
Scan(data) ==
    LET r == ScanLines(data)
    IN  [ok |-> r.ok, text |-> r.token, rest |-> SubSeq(data, r.advance + 1, Len(data))]

(* the mutant: the test helper with a single newline, no delimiter line *)
PayloadNoDelimiter(action, data) == action \o <<NL>> \o data

(* Extension.Payload / Assistant.Payload: strings.NewReader(action + "\n\n" + data) *)
Payload(action, data) == action \o <<NL, NL>> \o data

-----------------------------------------------------------------------------
(* fmt with a format string and no operands (fmt.Printf(s),                *)
(* fmt.Fprintf(w, s)): after '%' the flags are skipped, then "%%" prints   *)
(* '%', a missing verb prints %!(NOVERB) and any other verb prints         *)
(* %!v(MISSING).  Widths, precisions and argument indexes need characters  *)
(* ('0'..'9', '*', '.', '[') that no string of this model holds after '%'. *)

FmtFlags == {"#", "+", "-", " "}

RECURSIVE SkipFlags(_)
SkipFlags(s) == IF s # <<>> /\ Head(s) \in FmtFlags THEN SkipFlags(Tail(s)) ELSE s

RECURSIVE FormatNoOperands(_)
FormatNoOperands(format) ==
    IF format = <<>> THEN <<>>
    ELSE IF Head(format) # "%" THEN <<Head(format)>> \o FormatNoOperands(Tail(format))
    ELSE LET after == SkipFlags(Tail(format))
         IN  IF after = <<>> THEN <<"%", "!", "(NOVERB)">>
             ELSE IF Head(after) = "%" THEN <<"%">> \o FormatNoOperands(Tail(after))
             ELSE <<"%", "!", Head(after), "(MISSING)">> \o FormatNoOperands(Tail(after))

(* fmt.Fprintf(w, "%s", s) *)
FormatVerbS(s) == s

-----------------------------------------------------------------------------
(* Errors and handler results *)

NoError == [nil |-> TRUE, kind |-> "none", msg |-> <<>>]

Error(kind, msg) == [nil |-> FALSE, kind |-> kind, msg |-> msg]

NoResult == [output |-> <<>>, err |-> NoError]

NoTarget == [kind |-> "none", id |-> <<>>]

NoReturn == [resp |-> [nil |-> TRUE, TextBody |-> <<>>], out |-> <<>>, err |-> NoError]

(* what an ExtensionFunction can return: a response pointer and an error *)
NilResponse == [nil |-> TRUE, TextBody |-> <<>>]

Response(textBody) == [nil |-> FALSE, TextBody |-> textBody]

ExtensionOutcomes ==
    { [resp |-> NilResponse,          out |-> <<>>, err |-> NoError],
      [resp |-> Response(<<>>),       out |-> <<>>, err |-> NoError],
      [resp |-> Response(<<"%">>),    out |-> <<>>, err |-> NoError],
      [resp |-> NilResponse,          out |-> <<>>, err |-> Error("handler", <<"e">>)],
      [resp |-> Response(<<"%">>),    out |-> <<>>, err |-> Error("handler", <<"5", "%">>)] }

(* what a CommandFunction can return: an error *)
CommandOutcomes ==
    { [resp |-> NilResponse, out |-> <<>>, err |-> NoError],
      [resp |-> NilResponse, out |-> <<>>, err |-> Error("handler", <<"e">>)],
      [resp |-> NilResponse, out |-> <<>>, err |-> Error("handler", <<"5", "%">>)] }

(* what an ActionFunction of an Assistant tool can return: a string and an error *)
ToolOutcomes ==
    { [resp |-> NilResponse, out |-> <<>>,            err |-> NoError],
      [resp |-> NilResponse, out |-> <<"o", "k">>,    err |-> NoError],
      [resp |-> NilResponse, out |-> <<"5", "%">>,    err |-> NoError],
      [resp |-> NilResponse, out |-> <<"%", "%">>,    err |-> NoError],
      [resp |-> NilResponse, out |-> <<>>,            err |-> Error("handler", <<"e">>)],
      [resp |-> NilResponse, out |-> <<"o", "k">>,    err |-> Error("handler", <<"5", "%">>)] }

-----------------------------------------------------------------------------
(* encoding/json *)

(* a JSON string literal; '"', '\', newline and carriage return are escaped *)
JsonEscapeChar(c) ==
    CASE c = "\"" -> <<"\\", "\"">>
      [] c = "\\" -> <<"\\", "\\">>
      [] c = NL   -> <<"\\", "n">>
      [] c = CR   -> <<"\\", "r">>
      [] OTHER    -> <<c>>

RECURSIVE JsonEscape(_)
JsonEscape(s) == IF s = <<>> THEN <<>> ELSE JsonEscapeChar(Head(s)) \o JsonEscape(Tail(s))

JsonString(s) == <<"\"">> \o JsonEscape(s) \o <<"\"">>

JsonBool(b) == IF b THEN <<"true">> ELSE <<"false">>

JsonInt(n) == <<ToString(n)>>

(* json.Marshal(response) of an ExtensionResponse pointer: every field is omitempty *)
MarshalResponse(resp) ==
    IF resp.nil THEN <<"null">>
    ELSE <<"{">>
         \o (IF resp.TextBody # <<>>
             THEN <<"\"text_body\":">> \o JsonString(resp.TextBody) ELSE <<>>)
         \o <<"}">>

(* byte order of the characters that occur in map keys *)
AsciiOrder == <<NL, CR, " ", "!", "%", "*", "-", "/">> \o Digits \o Uppers \o Lowers

Code(c) == CHOOSE i \in DOMAIN AsciiOrder : AsciiOrder[i] = c

RECURSIVE StrLess(_, _)
StrLess(a, b) ==
    IF b = <<>> THEN FALSE
    ELSE IF a = <<>> THEN TRUE
    ELSE IF Head(a) = Head(b) THEN StrLess(Tail(a), Tail(b))
    ELSE Code(Head(a)) < Code(Head(b))

(* json.Marshal writes a map with its keys sorted *)
RECURSIVE SortedKeys(_)
SortedKeys(S) ==
    IF S = {} THEN <<>>
    ELSE LET m == CHOOSE k \in S : \A o \in S \ {k} : StrLess(k, o)
         IN  <<m>> \o SortedKeys(S \ {m})

(* the members of a JSON object, keys in the given order; member[k] is the
   encoded value of key k *)
RECURSIVE JsonMembers(_, _)
JsonMembers(keys, member) ==
    IF keys = <<>> THEN <<>>
    ELSE JsonString(keys[1]) \o <<":">> \o member[keys[1]]
         \o (IF Len(keys) > 1 THEN <<",">> ELSE <<>>)
         \o JsonMembers(Tail(keys), member)

-----------------------------------------------------------------------------
(* The registry of an Extension *)

EmptyMap == [k \in {} |-> NoTarget]

(* NewExtension(name, description) *)
NewExtension(name, description) ==
    [Id |-> slugify(name), Name |-> name, Description |-> description]

(* fmt.Sprintf("/extension/action/%s/%s", e.Id, id) *)
UrlPath(e, id) == <<"/extension/action/">> \o e.Id \o <<"/">> \o id

(* the ExtensionAction that AddNavigation builds *)
NavigationAction(e, acts, id, name, description, fn) ==
    [Id |-> id, Index |-> Cardinality(DOMAIN acts), Name |-> name,
     Description |-> description, Nav |-> TRUE, Function |-> fn,
     UrlPath |-> UrlPath(e, id), Cron |-> <<>>]

(* the ExtensionAction that AddAction builds *)
PlainAction(e, acts, id, fn) ==
    [Id |-> slugify(id), Index |-> Cardinality(DOMAIN acts), Name |-> id,
     Description |-> id, Nav |-> FALSE, Function |-> fn,
     UrlPath |-> UrlPath(e, id), Cron |-> <<>>]

(* the ExtensionAction that AddCron builds *)
CronAction(e, acts, id, cron, fn) ==
    [Id |-> slugify(id), Index |-> -1, Name |-> id,
     Description |-> id, Nav |-> FALSE, Function |-> fn,
     UrlPath |-> UrlPath(e, id), Cron |-> cron]

(* the ExtensionCommand that AddCommand builds *)
Command(id, fn) == [Id |-> slugify(id), Function |-> fn]

(* the mutant: a registration that keeps the entry already stored under the id *)
addActionKeepFirst(acts, v) ==
    [k \in DOMAIN acts \cup {v.Id} |-> IF k \in DOMAIN acts THEN acts[k] ELSE v]

(* e.actions[v.Id] = v *)
addAction(acts, v) ==
    [k \in DOMAIN acts \cup {v.Id} |-> IF k = v.Id THEN v ELSE acts[k]]

(* e.commands[v.Id] = v *)
addCommand(cmds, v) ==
    [k \in DOMAIN cmds \cup {v.Id} |-> IF k = v.Id THEN v ELSE cmds[k]]

(* the mutant: a lookup that slug-normalizes the requested id first *)
ActionByIdSlugified(acts, id) ==
    {acts[k] : k \in {j \in DOMAIN acts : acts[j].Id = slugify(id)}}

(* Extension.ActionById: the entries the loop can return for id *)
ActionById(acts, id) == {acts[k] : k \in {j \in DOMAIN acts : acts[j].Id = id}}

-----------------------------------------------------------------------------
(* The manifest of an Extension *)

(* the mutant: a manifest whose action map is keyed by the display name *)
JarblesExtensionByName(e, acts, cmds) ==
    [Id |-> e.Id, Name |-> e.Name, Description |-> e.Description,
     Actions  |-> [k \in {acts[j].Name : j \in DOMAIN acts} |->
                      LET op == acts[CHOOSE j \in DOMAIN acts : acts[j].Name = k]
                      IN  [Id |-> op.Id, Index |-> op.Index, Name |-> op.Name,
                           Description |-> op.Description, Nav |-> op.Nav,
                           Cron |-> op.Cron, CronSummary |-> <<>>]],
     Commands |-> [k \in {cmds[j].Id : j \in DOMAIN cmds} |->
                      [Id |-> cmds[CHOOSE j \in DOMAIN cmds : cmds[j].Id = k].Id]]]

(* the JarblesExtension value describe fills in; CronSummary is never assigned *)
JarblesExtension(e, acts, cmds) ==
    [Id |-> e.Id, Name |-> e.Name, Description |-> e.Description,
     Actions  |-> [k \in {acts[j].Id : j \in DOMAIN acts} |->
                      LET op == acts[CHOOSE j \in DOMAIN acts : acts[j].Id = k]
                      IN  [Id |-> op.Id, Index |-> op.Index, Name |-> op.Name,
                           Description |-> op.Description, Nav |-> op.Nav,
                           Cron |-> op.Cron, CronSummary |-> <<>>]],
     Commands |-> [k \in {cmds[j].Id : j \in DOMAIN cmds} |->
                      [Id |-> cmds[CHOOSE j \in DOMAIN cmds : cmds[j].Id = k].Id]]]

(* the orders in which a range loop can visit the keys of a map *)
Orders(S) ==
    {o \in [1..Cardinality(S) -> S] : \A i, j \in DOMAIN o : i # j => o[i] # o[j]}

(* describe's loop over e.actions, visiting the keys in the given order:
   je.Actions[op.Id] = JarblesExtensionAction{...} *)
RECURSIVE FillActions(_, _)
FillActions(acts, order) ==
    IF order = <<>> THEN EmptyMap
    ELSE LET filled == FillActions(acts, SubSeq(order, 1, Len(order) - 1))
             op == acts[order[Len(order)]]
         IN  [k \in DOMAIN filled \cup {op.Id} |->
                 IF k = op.Id
                 THEN [Id |-> op.Id, Index |-> op.Index, Name |-> op.Name,
                       Description |-> op.Description, Nav |-> op.Nav,
                       Cron |-> op.Cron, CronSummary |-> <<>>]
                 ELSE filled[k]]

MarshalAction(a) ==
    <<"{\"id\":">> \o JsonString(a.Id)
    \o <<",\"index\":">> \o JsonInt(a.Index)
    \o <<",\"name\":">> \o JsonString(a.Name)
    \o <<",\"description\":">> \o JsonString(a.Description)
    \o <<",\"nav\":">> \o JsonBool(a.Nav)
    \o <<",\"cron\":">> \o JsonString(a.Cron)
    \o <<",\"cronSummary\":">> \o JsonString(a.CronSummary)
    \o <<"}">>

MarshalCommand(c) == <<"{\"id\":">> \o JsonString(c.Id) \o <<"}">>

(* json.Marshal(je): no field is omitempty, the maps are never nil *)
MarshalExtension(je) ==
    <<"{\"id\":">> \o JsonString(je.Id)
    \o <<",\"name\":">> \o JsonString(je.Name)
    \o <<",\"description\":">> \o JsonString(je.Description)
    \o <<",\"actions\":{">>
    \o JsonMembers(SortedKeys(DOMAIN je.Actions),
                   [k \in DOMAIN je.Actions |-> MarshalAction(je.Actions[k])])
    \o <<"}">>
    \o <<",\"commands\":{">>
    \o JsonMembers(SortedKeys(DOMAIN je.Commands),
                   [k \in DOMAIN je.Commands |-> MarshalCommand(je.Commands[k])])
    \o <<"}}">>

(* the mutant: describe that gives up on a registry with a cron action *)
describeRejectsCron(e, acts, cmds) ==
    IF \E k \in DOMAIN acts : acts[k].Cron # <<>>
    THEN [output |-> <<>>, err |-> Error("encoding", <<"error while marshaling: ", "cron">>)]
    ELSE [output |-> MarshalExtension(JarblesExtension(e, acts, cmds)), err |-> NoError]

(* Extension.describe: json.Marshal of strings, ints and bools cannot fail *)
describe(e, acts, cmds) ==
    [output |-> MarshalExtension(JarblesExtension(e, acts, cmds)), err |-> NoError]

-----------------------------------------------------------------------------
(* The registry and manifest of an Assistant *)

AssistantDescription ==
    [StaticID |-> <<"s">>, Name |-> <<"N">>, Description |-> <<"D">>,
     Model |-> <<"gpt-3.5-turbo-1106">>, Placeholder |-> <<"How can I help you?">>]

(* the Action a caller hands to AddTool *)
ToolAction(name, fn) == [Name |-> name, Description |-> <<"D">>, Function |-> fn]

(* a.actions[v.Name] = v *)
addTool(tls, v) ==
    [k \in DOMAIN tls \cup {v.Name} |-> IF k = v.Name THEN v ELSE tls[k]]

(* the tool AddTool appends to description.Tools; v.Arguments is nil *)
ToolOf(v) == [Type |-> <<"function">>, Name |-> v.Name, Description |-> v.Description]

MarshalTool(t) ==
    <<"{\"type\":">> \o JsonString(t.Type)
    \o <<",\"function\":{\"name\":">> \o JsonString(t.Name)
    \o <<",\"description\":">> \o JsonString(t.Description)
    \o <<"}}">>

RECURSIVE MarshalTools(_)
MarshalTools(ts) ==
    IF ts = <<>> THEN <<>>
    ELSE MarshalTool(ts[1]) \o (IF Len(ts) > 1 THEN <<",">> ELSE <<>>)
         \o MarshalTools(Tail(ts))

(* Assistant.describe: json.Marshal(a.description); tools is omitempty *)
describeAssistant(d, ts) ==
    [output |->
        <<"{\"static_id\":">> \o JsonString(d.StaticID)
        \o <<",\"name\":">> \o JsonString(d.Name)
        \o <<",\"description\":">> \o JsonString(d.Description)
        \o <<",\"model\":">> \o JsonString(d.Model)
        \o <<",\"instructions\":">> \o JsonString(<<>>)
        \o (IF ts # <<>> THEN <<",\"tools\":[">> \o MarshalTools(ts) \o <<"]">> ELSE <<>>)
        \o <<",\"placeholder\":">> \o JsonString(d.Placeholder)
        \o <<"}">>,
     err |-> NoError]

-----------------------------------------------------------------------------
(* Resolving an operation id *)

Target(kind, id) == [kind |-> kind, id |-> id]

(* the mutant: route that looks in the registry before it looks for "describe" *)
routeRegistryFirst(opId, acts, cmds) ==
    IF \E k \in DOMAIN acts : acts[k].Id = opId
    THEN {Target("action", k) : k \in {j \in DOMAIN acts : acts[j].Id = opId}}
    ELSE IF \E k \in DOMAIN cmds : cmds[k].Id = opId
    THEN {Target("command", k) : k \in {j \in DOMAIN cmds : cmds[j].Id = opId}}
    ELSE IF opId = Describe THEN {Target("describe", <<>>)}
    ELSE {Target("unknown", <<>>)}

(* the mutant: route that falls back to the action whose id slugify gives *)
routeFuzzy(opId, acts, cmds) ==
    IF opId = Describe THEN {Target("describe", <<>>)}
    ELSE IF \E k \in DOMAIN acts : acts[k].Id = opId
    THEN {Target("action", k) : k \in {j \in DOMAIN acts : acts[j].Id = opId}}
    ELSE IF \E k \in DOMAIN cmds : cmds[k].Id = opId
    THEN {Target("command", k) : k \in {j \in DOMAIN cmds : cmds[j].Id = opId}}
    ELSE IF \E k \in DOMAIN acts : acts[k].Id = slugify(opId)
    THEN {Target("action", k) : k \in {j \in DOMAIN acts : acts[j].Id = slugify(opId)}}
    ELSE {Target("unknown", <<>>)}

(* the mutant: route that searches the commands before the actions *)
routeCommandsFirst(opId, acts, cmds) ==
    IF opId = Describe THEN {Target("describe", <<>>)}
    ELSE IF \E k \in DOMAIN cmds : cmds[k].Id = opId
    THEN {Target("command", k) : k \in {j \in DOMAIN cmds : cmds[j].Id = opId}}
    ELSE IF \E k \in DOMAIN acts : acts[k].Id = opId
    THEN {Target("action", k) : k \in {j \in DOMAIN acts : acts[j].Id = opId}}
    ELSE {Target("unknown", <<>>)}

(* Extension.route, the switch and the two loops: the entries the loops can
   stop at (Go ranges over a map in no fixed order) *)
route(opId, acts, cmds) ==
    IF opId = Describe THEN {Target("describe", <<>>)}
    ELSE IF \E k \in DOMAIN acts : acts[k].Id = opId
    THEN {Target("action", k) : k \in {j \in DOMAIN acts : acts[j].Id = opId}}
    ELSE IF \E k \in DOMAIN cmds : cmds[k].Id = opId
    THEN {Target("command", k) : k \in {j \in DOMAIN cmds : cmds[j].Id = opId}}
    ELSE {Target("unknown", <<>>)}

(* Assistant.route, the switch and the loop *)
routeAssistant(actionName, tls) ==
    IF actionName = Describe THEN {Target("describe", <<>>)}
    ELSE IF \E k \in DOMAIN tls : tls[k].Name = actionName
    THEN {Target("tool", k) : k \in {j \in DOMAIN tls : tls[j].Name = actionName}}
    ELSE {Target("unknown", <<>>)}

(* fmt.Errorf("unknown operation: %s", operationId) *)
UnknownOperation(opId) == Error("unknown", <<"unknown operation: ">> \o opId)

(* fmt.Errorf("unknown action: %s", actionName) *)
UnknownAction(actionName) == Error("unknown", <<"unknown action: ">> \o actionName)

(* the Function closure AddAction, AddNavigation and AddCron store *)
ActionFunction(outcome) ==
    IF ~outcome.err.nil THEN [output |-> <<>>, err |-> outcome.err]
    ELSE [output |-> MarshalResponse(outcome.resp), err |-> NoError]

(* route's command branch: return "", command.Function(payload) *)
CommandFunction(outcome) == [output |-> <<>>, err |-> outcome.err]

(* the mutant: Execute that hands the error text back as its output too *)
ExecuteResultEchoesError(r) ==
    IF ~r.err.nil THEN [output |-> r.err.msg, err |-> r.err]
    ELSE [output |-> r.output, err |-> NoError]

(* Extension.Execute after route: return "", err or return output, nil *)
ExecuteResult(r) ==
    IF ~r.err.nil THEN [output |-> <<>>, err |-> r.err]
    ELSE [output |-> r.output, err |-> NoError]

(* Assistant.execute after route: return err.Error() or return output *)
executeResultAssistant(r) ==
    IF ~r.err.nil THEN [output |-> r.err.msg, err |-> NoError]
    ELSE [output |-> r.output, err |-> NoError]

(* Extension.Respond: what goes to standard error and to standard output *)
RespondExtension(out, e) ==
    IF ~e.nil THEN [stdout |-> <<>>, stderr |-> FormatNoOperands(e.msg)]
    ELSE IF out # <<>> THEN [stdout |-> FormatVerbS(out), stderr |-> <<>>]
    ELSE [stdout |-> <<>>, stderr |-> <<>>]

(* Assistant.Respond: fmt.Printf(a.execute(os.Stdin)) *)
RespondAssistant(out) == [stdout |-> FormatNoOperands(out), stderr |-> <<>>]

(* the type assertion logger.Handler().(LibLogger) in Execute's deferred
   function: NewLibLogger hands slog.New a pointer, &LibLogger{...}, and a
   pointer's dynamic type is not LibLogger *)
HandlerIsLibLogger == FALSE

-----------------------------------------------------------------------------
(* Inputs *)

(* the id strings callers pass to the registration calls *)
PlainIds == {Describe, <<"a">>, <<"A">>, <<"!">>}

(* AddNavigation and AddAction are also called with an id that holds a space *)
RawIds == PlainIds \cup {<<"a", " ", "b">>}

(* the name and the description callers pass to AddNavigation *)
NavName == <<"N">>
NavDescription == <<"D">>

GoodCron == <<"0", " ", "*", " ", "*", " ", "*", " ", "*">>
BadCron  == <<"x">>
CronExprs == {GoodCron, BadCron}

ToolNames == {Describe, <<"a">>, <<"A">>}

(* the first lines and the payloads of the requests a host sends *)
OpLines == {Describe, <<"a">>, <<"A">>, <<>>, <<"a", " ", "b">>}
HostPayloads == {<<>>, <<"p", NL, "q">>}

RECURSIVE SeqsUpTo(_, _)
SeqsUpTo(S, n) ==
    IF n = 0 THEN {<<>>}
    ELSE LET shorter == SeqsUpTo(S, n - 1)
         IN  shorter \cup {Append(t, c) : t \in shorter, c \in S}

(* the requests the host sends: every first line with an empty payload, the
   action "a" also with a payload of two lines, and an empty stream *)
RequestStreams ==
    {Payload(op, <<>>) : op \in OpLines}
        \cup {Payload(<<"a">>, p) : p \in HostPayloads}
        \cup {<<>>}

(* the payloads handed to the Payload test helper, and arbitrary byte streams *)
TestPayloads == SeqsUpTo({"p", NL, CR}, MaxPayloadLen)
CodecStreams == SeqsUpTo({"o", NL, CR}, MaxStreamLen)
                    \cup {Payload(<<"o">>, p) : p \in TestPayloads}

-----------------------------------------------------------------------------
(* Registration: the calls main makes before Respond *)

(* main is making its registration calls; a program that only builds a
   registry and never calls Respond makes up to MaxBuildRegs of them *)
Registering(u) ==
    /\ unit = u
    /\ \/ pc = "register" /\ nreg < MaxRegs
       \/ pc = "build" /\ nreg < MaxBuildRegs

Registered(kind, id, raw, cron) ==
    /\ nreg' = nreg + 1
    /\ history' = Append(history, [kind |-> kind, id |-> id, raw |-> raw, cron |-> cron,
                                   fn |-> nreg + 1])
    /\ UNCHANGED <<unit, ext, pc, logState>>
    /\ UNCHANGED <<requestVars, resultVars, channelVars>>

(* Extension.ActionUrl(id): the URLPath of the action ActionById finds, ""
   when it finds none *)
ActionUrl(acts, id) ==
    IF ActionById(acts, id) = {} THEN <<>>
    ELSE (CHOOSE a \in ActionById(acts, id) : TRUE).UrlPath

(* Extension.AddCard: the link target is looked up when the card is added *)
AddCard ==
    /\ Registering("extension")
    /\ \E a \in RawIds :
         /\ cards' = Append(cards, [ID |-> <<"c">>, ActionID |-> a,
                                     Href |-> ActionUrl(actions, a)])
         /\ Registered("card", <<"c">>, a, <<>>)
    /\ UNCHANGED <<actions, commands, tools, toolList>>

AddNavigation ==
    /\ Registering("extension")
    /\ \E id \in RawIds :
         LET v == NavigationAction(ext, actions, id, NavName, NavDescription, nreg + 1)
         IN  /\ actions' = addAction(actions, v)
             /\ Registered("navigation", v.Id, id, <<>>)
    /\ UNCHANGED <<commands, tools, toolList, cards>>

AddAction ==
    /\ Registering("extension")
    /\ \E id \in RawIds :
         LET v == PlainAction(ext, actions, id, nreg + 1)
         IN  /\ actions' = addAction(actions, v)
             /\ Registered("action", v.Id, id, <<>>)
    /\ UNCHANGED <<commands, tools, toolList, cards>>

AddCommand ==
    /\ Registering("extension")
    /\ \E id \in PlainIds :
         LET v == Command(id, nreg + 1)
         IN  /\ commands' = addCommand(commands, v)
             /\ Registered("command", v.Id, id, <<>>)
    /\ UNCHANGED <<actions, tools, toolList, cards>>

AddCron ==
    /\ Registering("extension")
    /\ \E id \in PlainIds, cron \in CronExprs :
         LET v == CronAction(ext, actions, id, cron, nreg + 1)
         IN  /\ actions' = addAction(actions, v)
             /\ Registered("cron", v.Id, id, cron)
    /\ UNCHANGED <<commands, tools, toolList, cards>>

AddTool ==
    /\ Registering("assistant")
    /\ \E name \in ToolNames :
         LET v == ToolAction(name, nreg + 1)
         IN  /\ tools' = addTool(tools, v)
             /\ toolList' = Append(toolList, ToolOf(v))
             /\ Registered("tool", v.Name, name, <<>>)
    /\ UNCHANGED <<actions, commands, cards>>

-----------------------------------------------------------------------------
(* Respond and Execute *)

(* main calls Respond, which calls Execute on standard input *)
Respond ==
    /\ pc = "register"
    /\ pc' = "await"
    /\ \E s \in RequestStreams, f \in BOOLEAN :
         /\ input' = s
         /\ rest' = s
         /\ readFail' = f
    /\ UNCHANGED <<registryVars, operationId, lines, payload, target, logState>>
    /\ UNCHANGED <<resultVars, channelVars>>

(* NewLibLogger fails: Execute returns before it reads anything *)
NewLibLoggerFails ==
    /\ pc = "await"
    /\ LET e == Error("logger",
                      <<"error while creating logger: ", "error while creating log file">>)
       IN  IF unit = "extension"
           THEN output' = <<>> /\ err' = e
           ELSE output' = e.msg /\ err' = NoError
    /\ pc' = "respond"
    /\ UNCHANGED <<registryVars, requestVars, routed, calls, returned, channelVars, logState>>

(* NewLibLogger opens the log file *)
NewLibLogger ==
    /\ pc = "await"
    /\ logState' = "open"
    /\ pc' = "scanId"
    /\ UNCHANGED <<registryVars, requestVars, resultVars, channelVars>>

(* scanner.Scan(); operationId := scanner.Text() *)
ScanOperationId ==
    /\ pc = "scanId"
    /\ operationId' = Scan(rest).text
    /\ rest' = Scan(rest).rest
    /\ pc' = "scanDelimiter"
    /\ UNCHANGED <<registryVars, input, readFail, lines, payload, target, logState>>
    /\ UNCHANGED <<resultVars, channelVars>>

(* scanner.Scan(): skip payload delimiter *)
ScanDelimiter ==
    /\ pc = "scanDelimiter"
    /\ rest' = Scan(rest).rest
    /\ pc' = "scanPayload"
    /\ UNCHANGED <<registryVars, input, readFail, operationId, lines, payload, target>>
    /\ UNCHANGED <<resultVars, channelVars, logState>>

(* for scanner.Scan() { lines = append(lines, scanner.Text()) } *)
ScanPayloadLine ==
    /\ pc = "scanPayload"
    /\ Scan(rest).ok
    /\ lines' = Append(lines, Scan(rest).text)
    /\ rest' = Scan(rest).rest
    /\ UNCHANGED <<registryVars, input, readFail, operationId, payload, target, pc>>
    /\ UNCHANGED <<resultVars, channelVars, logState>>

(* the mutant: Execute that ignores scanner.Err() and routes what it has read *)
ScanErrorIgnored ==
    /\ pc = "scanPayload"
    /\ ~Scan(rest).ok
    /\ readFail
    /\ payload' = JoinNL(lines)
    /\ pc' = "resolve"
    /\ UNCHANGED <<registryVars, input, readFail, rest, operationId, lines, target>>
    /\ UNCHANGED <<resultVars, channelVars, logState>>

(* the mutant: a decoder that reports a read failure only once it has read
   a payload line *)
ScanErrorInPayloadOnly ==
    /\ pc = "scanPayload"
    /\ ~Scan(rest).ok
    /\ readFail
    /\ IF lines = <<>>
       THEN /\ payload' = <<>>
            /\ pc' = "resolve"
            /\ UNCHANGED <<output, err>>
       ELSE /\ LET e == Error("scan", <<"error while scanning: ", "read error">>)
               IN  IF unit = "extension"
                   THEN output' = <<>> /\ err' = e
                   ELSE output' = e.msg /\ err' = NoError
            /\ pc' = "return"
            /\ UNCHANGED payload
    /\ UNCHANGED <<registryVars, input, readFail, rest, operationId, lines, target>>
    /\ UNCHANGED <<routed, calls, returned, channelVars, logState>>

(* the loop ends and scanner.Err() is not nil *)
ScanError ==
    /\ pc = "scanPayload"
    /\ ~Scan(rest).ok
    /\ readFail
    /\ LET e == Error("scan", <<"error while scanning: ", "read error">>)
       IN  IF unit = "extension"
           THEN output' = <<>> /\ err' = e
           ELSE output' = e.msg /\ err' = NoError
    /\ pc' = "return"
    /\ UNCHANGED <<registryVars, requestVars, routed, calls, returned, channelVars, logState>>

(* the mutant: a decoder that reports a stream without a payload section as
   a scanning error *)
JoinPayloadRequiresSection ==
    /\ pc = "scanPayload"
    /\ ~Scan(rest).ok
    /\ ~readFail
    /\ IF lines = <<>>
       THEN /\ err' = Error("scan", <<"error while scanning: ", "no payload">>)
            /\ pc' = "return"
            /\ UNCHANGED payload
       ELSE /\ payload' = JoinNL(lines)
            /\ pc' = "resolve"
            /\ UNCHANGED err
    /\ UNCHANGED <<registryVars, input, readFail, rest, operationId, lines, target>>
    /\ UNCHANGED <<routed, output, calls, returned, channelVars, logState>>

(* the loop ends without error: payload := strings.Join(lines, "\n") *)
JoinPayload ==
    /\ pc = "scanPayload"
    /\ ~Scan(rest).ok
    /\ ~readFail
    /\ payload' = JoinNL(lines)
    /\ pc' = "resolve"
    /\ UNCHANGED <<registryVars, input, readFail, rest, operationId, lines, target>>
    /\ UNCHANGED <<resultVars, channelVars, logState>>

(* route: the switch and the loops find what operationId names *)
Resolve ==
    /\ pc = "resolve"
    /\ \E t \in (IF unit = "extension"
                 THEN route(operationId, actions, commands)
                 ELSE routeAssistant(operationId, tools)) :
         /\ target' = t
         /\ IF t.kind = "unknown"
            THEN /\ routed' = [output |-> <<>>,
                               err |-> IF unit = "extension"
                                       THEN UnknownOperation(operationId)
                                       ELSE UnknownAction(operationId)]
                 /\ pc' = "routed"
            ELSE /\ routed' = routed
                 /\ pc' = "execute"
    /\ UNCHANGED <<registryVars, input, readFail, rest, operationId, lines, payload>>
    /\ UNCHANGED <<output, err, calls, returned, channelVars, logState>>

(* the mutant: a describe that empties the command registry it has listed *)
ExecuteDescribeConsumes ==
    /\ pc = "execute"
    /\ target.kind = "describe"
    /\ routed' = IF unit = "extension"
                 THEN describe(ext, actions, commands)
                 ELSE describeAssistant(AssistantDescription, toolList)
    /\ commands' = EmptyMap
    /\ pc' = "routed"
    /\ UNCHANGED <<unit, ext, actions, tools, toolList, cards, nreg, history>>
    /\ UNCHANGED <<requestVars, output, err, calls, returned, channelVars, logState>>

(* route: case "describe" *)
ExecuteDescribe ==
    /\ pc = "execute"
    /\ target.kind = "describe"
    /\ routed' = IF unit = "extension"
                 THEN describe(ext, actions, commands)
                 ELSE describeAssistant(AssistantDescription, toolList)
    /\ pc' = "routed"
    /\ UNCHANGED <<registryVars, requestVars, output, err, calls, returned>>
    /\ UNCHANGED <<channelVars, logState>>

(* the mutant: a dispatch that removes the action it has run from the registry *)
ExecuteActionOnce ==
    /\ pc = "execute"
    /\ target.kind = "action"
    /\ \E outcome \in ExtensionOutcomes :
         /\ calls' = Append(calls, [fn |-> actions[target.id].Function, payload |-> payload])
         /\ returned' = outcome
         /\ routed' = ActionFunction(outcome)
    /\ actions' = [k \in DOMAIN actions \ {target.id} |-> actions[k]]
    /\ pc' = "routed"
    /\ UNCHANGED <<unit, ext, commands, tools, toolList, cards, nreg, history>>
    /\ UNCHANGED <<requestVars, output, err, channelVars, logState>>

(* route: return action.Function(payload) *)
ExecuteAction ==
    /\ pc = "execute"
    /\ target.kind = "action"
    /\ \E outcome \in ExtensionOutcomes :
         /\ calls' = Append(calls, [fn |-> actions[target.id].Function, payload |-> payload])
         /\ returned' = outcome
         /\ routed' = ActionFunction(outcome)
    /\ pc' = "routed"
    /\ UNCHANGED <<registryVars, requestVars, output, err, channelVars, logState>>

(* route: return "", command.Function(payload) *)
ExecuteCommand ==
    /\ pc = "execute"
    /\ target.kind = "command"
    /\ \E outcome \in CommandOutcomes :
         /\ calls' = Append(calls, [fn |-> commands[target.id].Function, payload |-> payload])
         /\ returned' = outcome
         /\ routed' = CommandFunction(outcome)
    /\ pc' = "routed"
    /\ UNCHANGED <<registryVars, requestVars, output, err, channelVars, logState>>

(* Assistant.route: return action.Function(payload) *)
ExecuteTool ==
    /\ pc = "execute"
    /\ target.kind = "tool"
    /\ \E outcome \in ToolOutcomes :
         /\ calls' = Append(calls, [fn |-> tools[target.id].Function, payload |-> payload])
         /\ returned' = outcome
         /\ routed' = [output |-> outcome.out, err |-> outcome.err]
    /\ pc' = "routed"
    /\ UNCHANGED <<registryVars, requestVars, output, err, channelVars, logState>>

(* Execute after route returned *)
AfterRoute ==
    /\ pc = "routed"
    /\ LET r == IF unit = "extension" THEN ExecuteResult(routed)
                ELSE executeResultAssistant(routed)
       IN  output' = r.output /\ err' = r.err
    /\ pc' = "return"
    /\ UNCHANGED <<registryVars, requestVars, routed, calls, returned, channelVars, logState>>

(* Execute returns: its deferred function runs *)
ExecuteReturn ==
    /\ pc = "return"
    /\ logState' = IF HandlerIsLibLogger THEN "closed" ELSE logState
    /\ pc' = "respond"
    /\ UNCHANGED <<registryVars, requestVars, resultVars, channelVars>>

(* the mutant: a Respond that goes back to wait for another request when it
   has written nothing yet *)
RespondWriteAndServeAgain ==
    /\ pc = "respond"
    /\ LET w == IF unit = "extension" THEN RespondExtension(output, err)
                ELSE RespondAssistant(output)
       IN  stdout' = stdout \o w.stdout /\ stderr' = stderr \o w.stderr
    /\ pc' = IF Len(stdout) + Len(stderr) = 0 THEN "await" ELSE "done"
    /\ UNCHANGED <<exitStatus, cmd, config>>
    /\ UNCHANGED <<registryVars, requestVars, resultVars, logState>>

(* Respond writes what Execute returned and returns to main, which returns:
   no path calls os.Exit, the status stays the 0 of a process that ends by
   returning from main *)
RespondWrite ==
    /\ pc = "respond"
    /\ LET w == IF unit = "extension" THEN RespondExtension(output, err)
                ELSE RespondAssistant(output)
       IN  stdout' = stdout \o w.stdout /\ stderr' = stderr \o w.stderr
    /\ UNCHANGED <<exitStatus, cmd, config>>
    /\ pc' = "done"
    /\ UNCHANGED <<registryVars, requestVars, resultVars, logState>>

-----------------------------------------------------------------------------
(* The standard actions: paths kept inside a safe directory *)

(* strings.HasPrefix(s, prefix) *)
HasPrefix(s, prefix) ==
    Len(prefix) <= Len(s) /\ SubSeq(s, 1, Len(prefix)) = prefix

(* strings.Index(s, substr), counted from 1; 0 when substr does not occur *)
IndexOf(s, substr) ==
    LET hits == {i \in 1..(Len(s) - Len(substr) + 1) :
                    SubSeq(s, i, i + Len(substr) - 1) = substr}
    IN  IF hits = {} THEN 0 ELSE CHOOSE i \in hits : \A j \in hits : i <= j

(* strings.Replace(s, old, "", 1): the first occurrence of old is removed *)
RemoveFirst(s, old) ==
    LET i == IndexOf(s, old)
    IN  IF i = 0 THEN s
        ELSE SubSeq(s, 1, i - 1) \o SubSeq(s, i + Len(old), Len(s))

(* the elements of a path between its separators *)
RECURSIVE SplitPath(_)
SplitPath(path) ==
    LET i == IndexOf(path, <<"/">>)
    IN  IF i = 0 THEN <<path>>
        ELSE <<SubSeq(path, 1, i - 1)>> \o SplitPath(SubSeq(path, i + 1, Len(path)))

(* strings.Join(elems, "/") *)
RECURSIVE JoinSlash(_)
JoinSlash(elems) ==
    IF elems = <<>> THEN <<>>
    ELSE IF Len(elems) = 1 THEN elems[1]
    ELSE elems[1] \o <<"/">> \o JoinSlash(Tail(elems))

DotDot == <<".", ".">>

(* the element-by-element pass of filepath.Clean: empty elements and "." are
   dropped, ".." removes the element before it, stays at the root of a rooted
   path and is kept at the start of a relative one *)
RECURSIVE CleanElems(_, _, _)
CleanElems(elems, kept, rooted) ==
    IF elems = <<>> THEN kept
    ELSE LET el == Head(elems)
             next == IF el = <<>> \/ el = <<".">> THEN kept
                     ELSE IF el = DotDot
                          THEN IF kept # <<>> /\ kept[Len(kept)] # DotDot
                               THEN SubSeq(kept, 1, Len(kept) - 1)
                               ELSE IF rooted THEN kept ELSE Append(kept, el)
                          ELSE Append(kept, el)
         IN  CleanElems(Tail(elems), next, rooted)

(* filepath.Clean(path) *)
Clean(path) ==
    IF path = <<>> THEN <<".">>
    ELSE LET rooted == path[1] = "/"
             joined == JoinSlash(CleanElems(SplitPath(path), <<>>, rooted))
         IN  IF rooted THEN <<"/">> \o joined
             ELSE IF joined = <<>> THEN <<".">> ELSE joined

(* filepath.Join(elem...): empty elements are ignored, the rest is joined with
   the separator and cleaned; "" when every element is empty *)
FilepathJoin(elems) ==
    LET nonEmpty == SelectSeq(elems, LAMBDA el : el # <<>>)
    IN  IF nonEmpty = <<>> THEN <<>> ELSE Clean(JoinSlash(nonEmpty))

(* the working directory of the process *)
Cwd == <<"/", "w">>

(* filepath.Abs(path): a rooted path is cleaned, any other is joined to the
   working directory *)
Abs(path) ==
    IF path # <<>> /\ path[1] = "/" THEN Clean(path)
    ELSE FilepathJoin(<<Cwd, path>>)

(* a (string, error) result *)
StringResult(out, e) == [resp |-> NilResponse, out |-> out, err |-> e]

(* fmt.Errorf("path is not within the safe directory: %s", absPath) *)
NotWithinSafeDir(absPath) ==
    Error("unsafe", <<"path is not within the safe directory: ">> \o absPath)

(* the check both functions end with *)
WithinOrError(safe, absPath) ==
    IF ~HasPrefix(absPath, safe)
    THEN StringResult(<<>>, NotWithinSafeDir(absPath))
    ELSE StringResult(absPath, NoError)

(* safePath(safeDir, baseDir, name) *)
safePath(safe, baseDir, name) ==
    WithinOrError(safe,
        Abs(FilepathJoin(<<safe, RemoveFirst(baseDir, safe), RemoveFirst(name, baseDir)>>)))

(* safeDir(safeDir, dir) *)
safeDir(safe, dir) ==
    WithinOrError(safe, Abs(FilepathJoin(<<safe, RemoveFirst(dir, safe)>>)))

(* the safe directories the standard actions are built with *)
SafeSrc == <<"/", "s">>
SafeDest == <<"/", "d">>

-----------------------------------------------------------------------------
(* The standard actions: an external command and its child process *)

(* the capacity of the pipe between the child's standard output and the
   process *)
PipeCap == 2

(* no command has been built yet *)
NoCmd ==
    [name |-> "none", Dir |-> <<>>, state |-> "none", deadline |-> "none",
     exits |-> FALSE, code |-> 0, text |-> <<>>, errLeft |-> <<>>, outLeft |-> 0,
     outPipe |-> 0, errdata |-> <<>>, outdata |-> 0, waited |-> FALSE]

(* exec.CommandContext(ctx, ...) under context.WithTimeout, cmd.Dir set *)
CommandContext(name, dir) == [NoCmd EXCEPT !.name = name, !.Dir = dir, !.deadline = "armed"]

(* the three commands of compile, in order, and the words compile puts before
   the error of each *)
CompileSteps == <<"go mod tidy", "goimports", "go build">>

CompilePrefix(name) ==
    IF name = "go mod tidy" THEN <<"error while downloading dependencies: ">>
    ELSE IF name = "goimports" THEN <<"error while organizing imports: ">>
    ELSE <<"error while building: ">>

StepOf(name) == CHOOSE i \in DOMAIN CompileSteps : CompileSteps[i] = name

-----------------------------------------------------------------------------
(* The config file of an Assistant: lines "key=value" *)

(* no config file has been written yet *)
NoConfigFile == [exists |-> FALSE, data |-> <<>>]

ConfigFile(data) == [exists |-> TRUE, data |-> data]

(* for scanner.Scan() { line := scanner.Text() ... }: every line of the file *)
RECURSIVE ScanAll(_)
ScanAll(data) ==
    IF ~Scan(data).ok THEN <<>>
    ELSE <<Scan(data).text>> \o ScanAll(Scan(data).rest)

(* strings.Cut(line, "=") *)
Cut(line) ==
    LET i == IndexOf(line, <<"=">>)
    IN  IF i = 0 THEN [before |-> line, after |-> <<>>, found |-> FALSE]
        ELSE [before |-> SubSeq(line, 1, i - 1),
              after  |-> SubSeq(line, i + 1, Len(line)),
              found  |-> TRUE]

(* the loop of ConfigGet: the value of the first line whose key is key *)
RECURSIVE FirstValue(_, _, _)
FirstValue(lns, key, defaultValue) ==
    IF lns = <<>> THEN defaultValue
    ELSE IF Cut(lns[1]).found /\ Cut(lns[1]).before = key THEN Cut(lns[1]).after
    ELSE FirstValue(Tail(lns), key, defaultValue)

(* Assistant.ConfigGet on a file that is read without an error *)
ConfigGet(file, key, defaultValue) ==
    IF ~file.exists
    THEN StringResult(<<>>, Error("open", <<"error while opening config file: ", "no such file">>))
    ELSE StringResult(FirstValue(ScanAll(file.data), key, defaultValue), NoError)

(* the loop of ConfigMap: keyValues[k] = v for every line with a "=" *)
ConfigMap(file) ==
    LET lns == ScanAll(file.data)
        found == {i \in DOMAIN lns : Cut(lns[i]).found}
    IN  [k \in {Cut(lns[i]).before : i \in found} |->
            Cut(lns[CHOOSE i \in found :
                      /\ Cut(lns[i]).before = k
                      /\ \A j \in found : Cut(lns[j]).before = k => j <= i]).after]

(* the lines ConfigSet writes back: every line of key replaced, or one line
   appended *)
NewLines(lns, key, value) ==
    LET updated == \E i \in DOMAIN lns : Cut(lns[i]).found /\ Cut(lns[i]).before = key
        replaced == [i \in DOMAIN lns |->
                        IF Cut(lns[i]).found /\ Cut(lns[i]).before = key
                        THEN key \o <<"=">> \o value ELSE lns[i]]
    IN  IF updated THEN replaced ELSE Append(replaced, key \o <<"=">> \o value)

(* writer.WriteString(line + "\n") for every line *)
RECURSIVE WriteLines(_)
WriteLines(lns) ==
    IF lns = <<>> THEN <<>> ELSE lns[1] \o <<NL>> \o WriteLines(Tail(lns))

(* the places ConfigSet can fail at before it has truncated the file *)
BeforeTruncate == {"open", "scan", "seek", "truncate"}

ConfigError(at) ==
    CASE at = "open"     -> Error(at, <<"error while opening config file: ", "open error">>)
      [] at = "scan"     -> Error(at, <<"error while scanning config file: ", "read error">>)
      [] at = "seek"     -> Error(at, <<"error while seeking config file: ", "seek error">>)
      [] at = "truncate" -> Error(at, <<"error while truncating config file: ", "truncate error">>)
      [] OTHER           -> Error(at, <<"error while flushing config file: ", "write error">>)

-----------------------------------------------------------------------------
(* Specifications *)

InitRequest ==
    /\ operationId = <<>>
    /\ lines = <<>>
    /\ payload = <<>>
    /\ target = NoTarget
    /\ routed = NoResult
    /\ output = <<>>
    /\ err = NoError
    /\ calls = <<>>
    /\ returned = NoReturn
    /\ stdout = <<>>
    /\ stderr = <<>>
    /\ exitStatus = 0
    /\ cmd = NoCmd
    /\ config = NoConfigFile
    /\ cards = <<>>
    /\ logState = "unopened"

(* a unit right after NewExtension / NewAssistant, before any registration *)
Init ==
    /\ unit \in {"extension", "assistant"}
    /\ ext = NewExtension(<<"X">>, <<"D">>)
    /\ actions = EmptyMap
    /\ commands = EmptyMap
    /\ tools = EmptyMap
    /\ toolList = <<>>
    /\ nreg = 0
    /\ history = <<>>
    /\ pc = "register"
    /\ input = <<>>
    /\ rest = <<>>
    /\ readFail = FALSE
    /\ InitRequest

ExecuteSteps ==
    \/ NewLibLoggerFails
    \/ NewLibLogger
    \/ ScanOperationId
    \/ ScanDelimiter
    \/ ScanPayloadLine
    \/ ScanError
    \/ JoinPayload
    \/ Resolve
    \/ ExecuteDescribe
    \/ ExecuteAction
    \/ ExecuteCommand
    \/ ExecuteTool
    \/ AfterRoute
    \/ ExecuteReturn
    \/ RespondWrite

Next ==
    \/ AddNavigation
    \/ AddAction
    \/ AddCommand
    \/ AddCron
    \/ AddTool
    \/ Respond
    \/ ExecuteSteps

Spec == Init /\ [][Next]_vars

-----------------------------------------------------------------------------
(* The codec alone: an Extension with the one action "o" registered by
   AddAction, or an Assistant with the one tool "o" registered by AddTool,
   about to execute an arbitrary request stream *)

InitCodec ==
    /\ unit \in {"extension", "assistant"}
    /\ ext = NewExtension(<<"X">>, <<"D">>)
    /\ actions = IF unit = "extension"
                 THEN addAction(EmptyMap, PlainAction(ext, EmptyMap, <<"o">>, 1))
                 ELSE EmptyMap
    /\ commands = EmptyMap
    /\ tools = IF unit = "assistant"
               THEN addTool(EmptyMap, ToolAction(<<"o">>, 1))
               ELSE EmptyMap
    /\ toolList = IF unit = "assistant" THEN <<ToolOf(ToolAction(<<"o">>, 1))>> ELSE <<>>
    /\ nreg = 1
    /\ history = <<[kind |-> IF unit = "extension" THEN "action" ELSE "tool",
                    id |-> <<"o">>, raw |-> <<"o">>, cron |-> <<>>, fn |-> 1]>>
    /\ pc = "await"
    /\ input \in CodecStreams
    /\ rest = input
    /\ readFail \in BOOLEAN
    /\ InitRequest

NextCodec ==
    \/ NewLibLoggerFails
    \/ NewLibLogger
    \/ ScanOperationId
    \/ ScanDelimiter
    \/ ScanPayloadLine
    \/ ScanError
    \/ JoinPayload
    \/ Resolve
    \/ ExecuteAction
    \/ ExecuteTool
    \/ AfterRoute
    \/ ExecuteReturn
    \/ RespondWrite

SpecCodec == InitCodec /\ [][NextCodec]_vars

-----------------------------------------------------------------------------
(* slugify alone: NewExtension is called with an arbitrary name, and again
   with the id the first call produced *)

(* the names handed to NewExtension *)
NameChars == {"a", "Z", "7", "-", " ", "!", KelvinSign}
UnitNames == SeqsUpTo(NameChars, MaxNameLen)

(* the zero value Extension{} *)
ZeroExtension == [Id |-> <<>>, Name |-> <<>>, Description |-> <<>>]

InitSlug ==
    /\ unit = "extension"
    /\ ext = ZeroExtension
    /\ actions = EmptyMap
    /\ commands = EmptyMap
    /\ tools = EmptyMap
    /\ toolList = <<>>
    /\ nreg = 0
    /\ history = <<>>
    /\ pc = "new"
    /\ input \in UnitNames
    /\ rest = <<>>
    /\ readFail = FALSE
    /\ InitRequest

(* e := NewExtension(name, description) *)
NewExtensionNamed ==
    /\ pc = "new"
    /\ ext' = NewExtension(input, <<"D">>)
    /\ pc' = "named"
    /\ UNCHANGED <<unit, actions, commands, tools, toolList, cards, nreg, history, logState>>
    /\ UNCHANGED <<requestVars, resultVars, channelVars>>

(* e = NewExtension(e.Id, e.Description) *)
NewExtensionFromId ==
    /\ pc = "named"
    /\ ext' = NewExtension(ext.Id, ext.Description)
    /\ pc' = "renamed"
    /\ UNCHANGED <<unit, actions, commands, tools, toolList, cards, nreg, history, logState>>
    /\ UNCHANGED <<requestVars, resultVars, channelVars>>

NextSlug ==
    \/ NewExtensionNamed
    \/ NewExtensionFromId

SpecSlug == InitSlug /\ [][NextSlug]_vars

-----------------------------------------------------------------------------
(* safePath and safeDir alone: each is called once with a safe directory and
   the directory and name a request carries *)

(* the elements a requested directory or name is made of *)
PathElems == {DotDot, <<"s">>, <<"s", "2">>, <<"x">>}

(* relative and rooted names of up to MaxSegs elements *)
PathArgs ==
    {JoinSlash(q) : q \in SeqsUpTo(PathElems, MaxSegs)}
        \cup {<<"/">> \o JoinSlash(q) : q \in SeqsUpTo(PathElems, MaxSegs)}

(* the file names a request carries *)
NameArgs == {<<>>} \cup PathElems \cup {<<"/">> \o el : el \in PathElems}

InitPath ==
    /\ unit = "extension"
    /\ ext = ZeroExtension
    /\ actions = EmptyMap
    /\ commands = EmptyMap
    /\ tools = EmptyMap
    /\ toolList = <<>>
    /\ nreg = 0
    /\ history = <<>>
    /\ pc = "path"
    /\ input \in [safeDir : {SafeSrc}, baseDir : PathArgs, name : NameArgs]
    /\ rest = <<>>
    /\ readFail = FALSE
    /\ InitRequest

(* filename, err := safePath(safeDir, request.Dir, request.Name) *)
CallSafePath ==
    /\ pc = "path"
    /\ returned' = safePath(input.safeDir, input.baseDir, input.name)
    /\ pc' = "safePath"
    /\ UNCHANGED <<registryVars, requestVars, routed, output, err, calls, channelVars, logState>>

(* workingDir, err := safeDir(safeSrc, request.WorkingDir) *)
CallSafeDir ==
    /\ pc = "path"
    /\ returned' = safeDir(input.safeDir, input.baseDir)
    /\ pc' = "safeDir"
    /\ UNCHANGED <<registryVars, requestVars, routed, output, err, calls, channelVars, logState>>

NextPath ==
    \/ CallSafePath
    \/ CallSafeDir

SpecPath == InitPath /\ [][NextPath]_vars

-----------------------------------------------------------------------------
(* the handler compile: three external commands, one after the other, each
   run by runCommand under a context with a timeout *)

(* the directories a compile request names *)
CompileDirs == {<<"x">>, DotDot \o <<"/", "x">>, DotDot \o <<"/", "s", "/", "s", "2">>}

(* a compile request: whether the payload is valid JSON, and its fields *)
CompileRequests == [ok : BOOLEAN, WorkingDir : CompileDirs, OutputDir : CompileDirs]

(* what a child process does when left alone: the text it writes to standard
   error, the number of bytes it writes to standard output, and whether it then
   exits, with which status *)
ErrTexts == {<<>>, <<"e">>, <<"e", NL>>}
ChildPlans == [exits : BOOLEAN, code : {0, 1}, text : ErrTexts, out : 0..MaxChildOut]

InitRun ==
    /\ unit = "extension"
    /\ ext = ZeroExtension
    /\ actions = EmptyMap
    /\ commands = EmptyMap
    /\ tools = EmptyMap
    /\ toolList = <<>>
    /\ nreg = 0
    /\ history = <<>>
    /\ pc = "compile"
    /\ input \in CompileRequests
    /\ rest = <<>>
    /\ readFail = FALSE
    /\ InitRequest

runUnchanged == <<registryVars, requestVars, routed, output, err, calls, stdout, stderr,
                  exitStatus, config, logState>>

(* the command of one step of compile *)
StepCommand(name) == CommandContext(name, safeDir(SafeSrc, input.WorkingDir).out)

(* compile returns the error of a step: fmt.Errorf(prefix + "%s", err) *)
StepError(name, msg) == StringResult(<<>>, Error("command", CompilePrefix(name) \o msg))

(* the deferred cancel() of the command's context: a child still running is
   killed *)
Cancelled(c) ==
    [c EXCEPT !.deadline = "cancelled",
              !.state = IF c.state = "running" THEN "killed" ELSE c.state]

(* compile up to its first command: the payload is decoded and both
   directories are checked *)
CompileBegin ==
    /\ pc = "compile"
    /\ LET w == safeDir(SafeSrc, input.WorkingDir)
           o == safeDir(SafeDest, input.OutputDir)
       IN  IF ~input.ok
           THEN /\ returned' = StringResult(<<>>, Error("unmarshal",
                                   <<"error while unmarshaling payload: ", "invalid JSON">>))
                /\ pc' = "returned"
                /\ cmd' = cmd
           ELSE IF ~w.err.nil
           THEN /\ returned' = StringResult(<<>>, Error("unsafe",
                                   <<"error while getting safe working directory: ">>
                                       \o w.err.msg))
                /\ pc' = "returned"
                /\ cmd' = cmd
           ELSE IF ~o.err.nil
           THEN /\ returned' = StringResult(<<>>, Error("unsafe",
                                   <<"error while getting safe output directory: ">>
                                       \o o.err.msg))
                /\ pc' = "returned"
                /\ cmd' = cmd
           ELSE /\ cmd' = StepCommand(CompileSteps[1])
                /\ pc' = "start"
                /\ returned' = returned
    /\ UNCHANGED runUnchanged

(* cmd.Start() starts the child, which will behave in one of the ways a
   process can *)
StartCommand ==
    /\ pc = "start"
    /\ \E plan \in ChildPlans :
          cmd' = [cmd EXCEPT !.state = "running", !.exits = plan.exits, !.code = plan.code,
                             !.text = plan.text, !.errLeft = plan.text, !.outLeft = plan.out]
    /\ pc' = "readErr"
    /\ UNCHANGED <<returned, runUnchanged>>

(* cmd.Start() fails *)
StartFails ==
    /\ pc = "start"
    /\ returned' = StepError(cmd.name, <<"error while starting the command: ", "exec error">>)
    /\ cmd' = Cancelled(cmd)
    /\ pc' = "returned"
    /\ UNCHANGED runUnchanged

(* the child writes a byte to standard error; io.ReadAll(stderr) takes it *)
ChildWriteStderr ==
    /\ cmd.state = "running"
    /\ cmd.errLeft # <<>>
    /\ cmd' = [cmd EXCEPT !.errLeft = Tail(cmd.errLeft),
                          !.errdata = Append(cmd.errdata, Head(cmd.errLeft))]
    /\ UNCHANGED <<pc, returned, runUnchanged>>

(* the child writes a byte to standard output, which nobody reads yet: the
   write goes through only while the pipe has room *)
ChildWriteStdout ==
    /\ cmd.state = "running"
    /\ cmd.outLeft > 0
    /\ cmd.outPipe < PipeCap
    /\ cmd' = [cmd EXCEPT !.outLeft = cmd.outLeft - 1, !.outPipe = cmd.outPipe + 1]
    /\ UNCHANGED <<pc, returned, runUnchanged>>

(* the child has written all it had to and exits *)
ChildExit ==
    /\ cmd.state = "running"
    /\ cmd.exits
    /\ cmd.errLeft = <<>>
    /\ cmd.outLeft = 0
    /\ cmd' = [cmd EXCEPT !.state = "exited"]
    /\ UNCHANGED <<pc, returned, runUnchanged>>

(* the mutant: a deadline that is looked at only once cmd.Wait() is reached *)
TimeoutWatchedInWait ==
    /\ pc = "wait"
    /\ cmd.state = "running"
    /\ cmd.deadline = "armed"
    /\ cmd' = [cmd EXCEPT !.state = "killed", !.deadline = "expired"]
    /\ UNCHANGED <<pc, returned, runUnchanged>>

(* the deadline of context.WithTimeout passes: exec.CommandContext kills the
   child, whatever runCommand is doing *)
Timeout ==
    /\ cmd.state = "running"
    /\ cmd.deadline = "armed"
    /\ cmd' = [cmd EXCEPT !.state = "killed", !.deadline = "expired"]
    /\ UNCHANGED <<pc, returned, runUnchanged>>

(* io.ReadAll(stderr) returns at end of file, when the child is gone *)
ReadAllStderr ==
    /\ pc = "readErr"
    /\ cmd.state \in {"exited", "killed"}
    /\ pc' = "readOut"
    /\ UNCHANGED <<cmd, returned, runUnchanged>>

(* io.ReadAll(stderr) fails *)
ReadStderrFails ==
    /\ pc = "readErr"
    /\ returned' = StepError(cmd.name, <<"error while reading standard error: ", "read error">>)
    /\ cmd' = Cancelled(cmd)
    /\ pc' = "returned"
    /\ UNCHANGED runUnchanged

(* io.ReadAll(stdout) takes what the pipe holds *)
ReadAllStdout ==
    /\ pc = "readOut"
    /\ cmd' = [cmd EXCEPT !.outdata = cmd.outPipe, !.outPipe = 0]
    /\ pc' = "wait"
    /\ UNCHANGED <<returned, runUnchanged>>

(* io.ReadAll(stdout) fails *)
ReadStdoutFails ==
    /\ pc = "readOut"
    /\ returned' = StepError(cmd.name, <<"error while reading standard output: ", "read error">>)
    /\ cmd' = Cancelled(cmd)
    /\ pc' = "returned"
    /\ UNCHANGED runUnchanged

(* cmd.Wait(): nil for a child that exited with status 0, else runCommand
   returns fmt.Errorf("%s", errdata) and compile puts its words before it *)
Wait ==
    /\ pc = "wait"
    /\ IF cmd.state = "exited" /\ cmd.code = 0
       THEN /\ cmd' = [Cancelled(cmd) EXCEPT !.waited = TRUE]
            /\ pc' = "ran"
            /\ returned' = returned
       ELSE /\ cmd' = [Cancelled(cmd) EXCEPT !.waited = TRUE]
            /\ returned' = StepError(cmd.name, cmd.errdata)
            /\ pc' = "returned"
    /\ UNCHANGED runUnchanged

(* compile goes on to its next command, or returns when the last one is done *)
CompileNext ==
    /\ pc = "ran"
    /\ IF StepOf(cmd.name) = Len(CompileSteps)
       THEN /\ returned' = StringResult(<<"compile completed successfully">>, NoError)
            /\ pc' = "returned"
            /\ cmd' = cmd
       ELSE /\ cmd' = StepCommand(CompileSteps[StepOf(cmd.name) + 1])
            /\ pc' = "start"
            /\ returned' = returned
    /\ UNCHANGED runUnchanged

NextRun ==
    \/ CompileBegin
    \/ StartCommand
    \/ StartFails
    \/ ChildWriteStderr
    \/ ChildWriteStdout
    \/ ChildExit
    \/ Timeout
    \/ ReadAllStderr
    \/ ReadStderrFails
    \/ ReadAllStdout
    \/ ReadStdoutFails
    \/ Wait
    \/ CompileNext

SpecRun == InitRun /\ [][NextRun]_vars

(* runCommand is sequential code, so each of its calls comes back one way or
   the other, and the time of the deadline passes *)
FairRun ==
    /\ WF_vars(StartCommand \/ StartFails)
    /\ WF_vars(ReadAllStderr)
    /\ WF_vars(ReadAllStdout)
    /\ WF_vars(Wait)
    /\ WF_vars(Timeout)

SpecRunLive == SpecRun /\ FairRun

-----------------------------------------------------------------------------
(* the registry alone: an Extension on which only the calls that write to the
   action registry are made *)

InitBuild ==
    /\ unit = "extension"
    /\ ext = NewExtension(<<"X">>, <<"D">>)
    /\ actions = EmptyMap
    /\ commands = EmptyMap
    /\ tools = EmptyMap
    /\ toolList = <<>>
    /\ nreg = 0
    /\ history = <<>>
    /\ pc = "build"
    /\ input = <<>>
    /\ rest = <<>>
    /\ readFail = FALSE
    /\ InitRequest

(* Extension.NavigationByName: the entries the loop can return for name (Go
   ranges over a map in no fixed order) *)
NavigationByName(acts, name) ==
    {acts[k] : k \in {j \in DOMAIN acts : acts[j].Name = name /\ acts[j].Nav}}

(* action := e.NavigationByName(name): the loop returns the first matching
   entry it visits, nil when there is none *)
CallNavigationByName ==
    /\ pc = "build"
    /\ unit = "extension"
    /\ \E name \in {NavName, <<"a">>} :
         /\ input' = name
         /\ \/ /\ NavigationByName(actions, name) = {}
               /\ returned' = [resp |-> NilResponse, out |-> <<>>, err |-> NoError]
            \/ \E a \in NavigationByName(actions, name) :
                  returned' = [resp |-> NilResponse, out |-> <<a>>, err |-> NoError]
    /\ pc' = "looked"
    /\ UNCHANGED <<registryVars, readFail, rest, operationId, lines, payload, target>>
    /\ UNCHANGED <<routed, output, err, calls, channelVars, logState>>

NextBuild ==
    \/ AddNavigation
    \/ AddAction
    \/ AddCron
    \/ CallNavigationByName

SpecBuild == InitBuild /\ [][NextBuild]_vars

(* cards and the actions they link to: AddCard and AddAction in any order *)
NextCards ==
    \/ AddAction
    \/ AddCard

SpecCards == InitBuild /\ [][NextCards]_vars

-----------------------------------------------------------------------------
(* the config store alone: ConfigSet is called up to MaxSets times on a file
   that does not exist at first, then ConfigGet once *)

ConfigKeys == {<<"k">>, <<"j">>, <<"k", "=", "j">>}
ConfigValues == {<<"v">>, <<>>, <<"v", NL, "j", "=", "w">>}
DefaultValue == <<"d">>

InitConfig ==
    /\ unit = "assistant"
    /\ ext = ZeroExtension
    /\ actions = EmptyMap
    /\ commands = EmptyMap
    /\ tools = EmptyMap
    /\ toolList = <<>>
    /\ nreg = 0
    /\ history = <<>>
    /\ pc = "config"
    /\ input = [key |-> <<>>, value |-> <<>>, before |-> NoConfigFile, asked |-> <<>>]
    /\ rest = <<>>
    /\ readFail = FALSE
    /\ InitRequest

configUnchanged == <<unit, ext, actions, commands, tools, toolList, cards, nreg, readFail, rest,
                     operationId, lines, payload, target, routed, output, calls, stdout,
                     stderr, exitStatus, cmd, logState>>

(* err := a.ConfigSet(key, value), succeeding *)
ConfigSet ==
    /\ pc = "config"
    /\ Len(history) < MaxSets
    /\ \E key \in ConfigKeys, value \in ConfigValues :
         /\ input' = [input EXCEPT !.key = key, !.value = value, !.before = config]
         /\ history' = Append(history, [kind |-> "ConfigSet", key |-> key, value |-> value])
         /\ config' = ConfigFile(WriteLines(NewLines(ScanAll(config.data), key, value)))
    /\ err' = NoError
    /\ UNCHANGED <<pc, returned, configUnchanged>>

(* err := a.ConfigSet(key, value), failing before the file is truncated: the
   file is as it was, created by os.OpenFile if it was not there *)
ConfigSetFailsEarly ==
    /\ pc = "config"
    /\ Len(history) < MaxSets
    /\ \E key \in ConfigKeys, value \in ConfigValues, at \in BeforeTruncate :
         /\ input' = [input EXCEPT !.key = key, !.value = value, !.before = config]
         /\ history' = Append(history, [kind |-> "ConfigSet", key |-> key, value |-> value])
         /\ config' = IF at = "open" THEN config ELSE ConfigFile(config.data)
         /\ err' = ConfigError(at)
    /\ UNCHANGED <<pc, returned, configUnchanged>>

(* err := a.ConfigSet(key, value), failing while it writes: the file holds
   some first part of the new lines *)
ConfigSetFailsLate ==
    /\ pc = "config"
    /\ Len(history) < MaxSets
    /\ \E key \in ConfigKeys, value \in ConfigValues :
         LET written == WriteLines(NewLines(ScanAll(config.data), key, value))
         IN  /\ input' = [input EXCEPT !.key = key, !.value = value, !.before = config]
             /\ history' = Append(history, [kind |-> "ConfigSet", key |-> key, value |-> value])
             /\ \E n \in 0..(Len(written) - 1) : config' = ConfigFile(SubSeq(written, 1, n))
    /\ err' = ConfigError("write")
    /\ UNCHANGED <<pc, returned, configUnchanged>>

(* value, err := a.ConfigGet(key, defaultValue) *)
ConfigGetCall ==
    /\ pc = "config"
    /\ history # <<>>
    /\ \E key \in ConfigKeys :
         /\ input' = [input EXCEPT !.asked = key]
         /\ returned' = ConfigGet(config, key, DefaultValue)
    /\ pc' = "got"
    /\ UNCHANGED <<history, err, config, configUnchanged>>

NextConfig ==
    \/ ConfigSet
    \/ ConfigSetFailsEarly
    \/ ConfigSetFailsLate
    \/ ConfigGetCall

SpecConfig == InitConfig /\ [][NextConfig]_vars

-----------------------------------------------------------------------------
(* Vocabulary of the properties *)

(* route has picked what operationId names *)
Resolved == target.kind # "none"

(* route has returned *)
Routed == Resolved /\ pc \in {"routed", "return", "respond", "done"}

(* Execute has returned *)
Returned == pc \in {"respond", "done"}

(* the scanner read the whole stream and reported no error *)
Decoded == pc \in {"resolve", "execute", "routed"} \/ Resolved

RegisteredIds ==
    IF unit = "extension"
    THEN {actions[k].Id : k \in DOMAIN actions} \cup {commands[k].Id : k \in DOMAIN commands}
    ELSE {tools[k].Name : k \in DOMAIN tools}

(* everything the host reads from the process *)
HostText == stdout \o stderr

(* the registry a registration call of this kind writes to *)
RegistryOf(kind) ==
    CASE kind = "command" -> "commands"
      [] kind = "tool"    -> "tools"
      [] OTHER            -> "actions"

(* the lines of a byte stream: the text between newlines; a stream that ends
   in a newline has no further, empty line after it *)
NthNewline(data, n) ==
    CHOOSE i \in NewlineAt(data) : Cardinality({j \in NewlineAt(data) : j <= i}) = n

RawLineCount(data) ==
    Cardinality(NewlineAt(data))
        + (IF Len(data) > 0 /\ data[Len(data)] # NL THEN 1 ELSE 0)

RawLine(data, i) ==
    IF i > RawLineCount(data) THEN <<>>
    ELSE SubSeq(data,
                IF i = 1 THEN 1 ELSE NthNewline(data, i - 1) + 1,
                IF i <= Cardinality(NewlineAt(data)) THEN NthNewline(data, i) - 1
                ELSE Len(data))

WithoutTrailingCR(l) ==
    IF l # <<>> /\ l[Len(l)] = CR THEN SubSeq(l, 1, Len(l) - 1) ELSE l

(* lines from..n of the stream, rejoined with one newline between them *)
RECURSIVE RawLinesJoined(_, _)
RawLinesJoined(data, from) ==
    IF from > RawLineCount(data) THEN <<>>
    ELSE IF from = RawLineCount(data) THEN RawLine(data, from)
    ELSE RawLine(data, from) \o <<NL>> \o RawLinesJoined(data, from + 1)

RECURSIVE TrimmedLinesJoined(_, _)
TrimmedLinesJoined(data, from) ==
    IF from > RawLineCount(data) THEN <<>>
    ELSE IF from = RawLineCount(data) THEN WithoutTrailingCR(RawLine(data, from))
    ELSE WithoutTrailingCR(RawLine(data, from)) \o <<NL>> \o TrimmedLinesJoined(data, from + 1)

(* a payload the line scanner gives back unchanged: it does not end in a
   newline, and no line of it ends in a carriage return *)
SurvivesLineSplit(P) ==
    /\ P = <<>> \/ P[Len(P)] \notin {NL, CR}
    /\ \A i \in DOMAIN P : i < Len(P) /\ P[i] = CR => P[i + 1] # NL

(* a newline with text on both sides of it *)
EmbeddedNewline(P) == \E i \in DOMAIN P : 1 < i /\ i < Len(P) /\ P[i] = NL

Rank(p) ==
    CASE p = "register"      -> 0
      [] p = "await"         -> 1
      [] p = "scanId"        -> 2
      [] p = "scanDelimiter" -> 3
      [] p = "scanPayload"   -> 4
      [] p = "resolve"       -> 5
      [] p = "execute"       -> 6
      [] p = "routed"        -> 7
      [] p = "return"        -> 8
      [] p = "respond"       -> 9
      [] p = "done"          -> 10

(* the dispatcher state of section 4.4 the process is in *)
DispatcherState(p) ==
    CASE p \in {"register", "await"}                       -> "AwaitingRequest"
      [] p \in {"scanId", "scanDelimiter", "scanPayload"}  -> "Decoding"
      [] p = "resolve"                                     -> "Resolving"
      [] p = "execute"                                     -> "Executing"
      [] p \in {"routed", "return", "respond"}             -> "Encoding"
      [] p = "done"                                        -> "Done"

-----------------------------------------------------------------------------
(* C1: dispatching an id that is not "describe" and is not the id of any
   registered action, command or tool yields the unknown-operation error and
   invokes no handler. *)
UnknownOperationNoHandler ==
    (Resolved /\ operationId # Describe /\ operationId \notin RegisteredIds)
        => /\ calls = <<>>
           /\ target.kind = "unknown"
           /\ Routed => /\ routed.output = <<>>
                        /\ routed.err.kind = "unknown"
                        /\ routed.err.msg =
                             (IF unit = "extension" THEN <<"unknown operation: ">>
                              ELSE <<"unknown action: ">>) \o operationId

(* the request "A" reaches an extension that registered "a" and is refused *)
UnknownOperationWitness ==
    /\ pc = "done"
    /\ unit = "extension"
    /\ operationId = <<"A">>
    /\ <<"a">> \in DOMAIN actions
    /\ routed.err.kind = "unknown"
    /\ calls = <<>>

(* C2: "describe" always resolves to the manifest builder, also when a handler
   is registered under the id "describe": the manifest comes back and no
   registered handler is invoked. *)
DescribeIsReserved ==
    (Resolved /\ operationId = Describe)
        => /\ target.kind = "describe"
           /\ calls = <<>>
           /\ Routed =>
                routed.output =
                    (IF unit = "extension"
                     THEN MarshalExtension(JarblesExtension(ext, actions, commands))
                     ELSE describeAssistant(AssistantDescription, toolList).output)

(* a handler is registered under "describe" and the request still gets the manifest *)
DescribeIsReservedWitness ==
    /\ pc = "done"
    /\ target.kind = "describe"
    /\ operationId = Describe
    /\ Describe \in RegisteredIds
    /\ calls = <<>>
    /\ stdout # <<>>

(* C3: dispatching "describe" always yields a success result, never an error,
   on an empty registry and on one with a malformed cron expression. *)
DescribeNeverFails ==
    (Routed /\ operationId = Describe)
        => /\ routed.err.nil
           /\ routed.output # <<>>
           /\ pc \in {"return", "respond", "done"} => err.nil /\ output = routed.output
           /\ pc = "done" => stderr = <<>> /\ stdout # <<>>

(* describe succeeded on a registry holding a cron action with a malformed expression *)
DescribeNeverFailsWitness ==
    /\ pc = "done"
    /\ unit = "extension"
    /\ target.kind = "describe"
    /\ operationId = Describe
    /\ \E k \in DOMAIN actions : actions[k].Cron = BadCron
    /\ err.nil
    /\ stdout # <<>>

(* C4 as stated: after two registrations with the same id, dispatch of that id
   reaches the second handler and the first handler is never invoked. *)
LastWriteWinsAnyKind ==
    \A c \in Range(calls) :
        ~ \E i, j \in DOMAIN history :
            /\ i < j
            /\ history[i].id = history[j].id
            /\ history[i].fn = c.fn

(* C4 as amended: two registrations with the same id in the same registry (two
   actions of any kind, or two commands, or two tools) leave only the second
   resolvable: lookup returns it, dispatch never invokes the first. *)
LastWriteWinsSameRegistry ==
    /\ \A c \in Range(calls) :
           ~ \E i, j \in DOMAIN history :
               /\ i < j
               /\ history[i].id = history[j].id
               /\ RegistryOf(history[i].kind) = RegistryOf(history[j].kind)
               /\ history[i].fn = c.fn
    /\ \A j \in DOMAIN history :
           (/\ RegistryOf(history[j].kind) = "actions"
            /\ ~ \E l \in DOMAIN history :
                   /\ l > j
                   /\ history[l].id = history[j].id
                   /\ RegistryOf(history[l].kind) = "actions")
           => \A a \in ActionById(actions, history[j].id) : a.Function = history[j].fn
    /\ \A j \in DOMAIN history :
           RegistryOf(history[j].kind) = "actions" => ActionById(actions, history[j].id) # {}

(* an id was registered twice as an action and its dispatch ran the second handler *)
LastWriteWinsWitness ==
    /\ pc = "done"
    /\ Len(calls) = 1
    /\ \E i, j \in DOMAIN history :
           /\ i < j
           /\ history[i].id = history[j].id
           /\ RegistryOf(history[i].kind) = "actions"
           /\ RegistryOf(history[j].kind) = "actions"
           /\ calls[1].fn = history[j].fn


(* C5 as stated: for a stream read as lines l1..ln, the operation id is l1
   verbatim with no character trimmed, l2 is discarded whatever it holds, and
   the payload is l3..ln rejoined with single newlines. *)
DecodeKeepsLinesVerbatim ==
    Decoded => /\ operationId = RawLine(input, 1)
               /\ payload = RawLinesJoined(input, 3)

(* C5 as amended: the operation id is l1 without one trailing carriage return
   and otherwise untrimmed, l2 is discarded whatever it holds, and the payload
   is l3..ln, each without one trailing carriage return, rejoined with single
   newlines; that payload is what the handler receives. *)
DecodeDropsOnlyTrailingCR ==
    Decoded => /\ operationId = WithoutTrailingCR(RawLine(input, 1))
               /\ pc # "resolve" \/ payload = TrimmedLinesJoined(input, 3)
               /\ Resolved => payload = TrimmedLinesJoined(input, 3)
               /\ \A c \in Range(calls) : c.payload = TrimmedLinesJoined(input, 3)

(* a three-line stream whose second line is not empty reached the handler *)
DecodeWitness ==
    /\ pc = "done"
    /\ Len(calls) = 1
    /\ RawLineCount(input) = 3
    /\ RawLine(input, 2) # <<>>
    /\ RawLine(input, 3) # <<>>
    /\ calls[1].payload = RawLine(input, 3)

(* C6 as stated: for every payload P with embedded newlines, decoding the
   stream Payload("o", P) hands the handler exactly P. *)
PayloadRoundTripAny ==
    \A P \in TestPayloads :
        (EmbeddedNewline(P) /\ input = Payload(<<"o">>, P) /\ Resolved)
            => /\ payload = P
               /\ \A c \in Range(calls) : c.payload = P

(* C6 as amended: the round trip is exact for every payload P that does not
   end in a newline or a carriage return and has no carriage return right
   before a newline. *)
PayloadRoundTripClean ==
    \A P \in TestPayloads :
        (SurvivesLineSplit(P) /\ input = Payload(<<"o">>, P) /\ Resolved)
            => /\ operationId = <<"o">>
               /\ payload = P
               /\ \A c \in Range(calls) : c.payload = P

(* the payload "p\np" went through the helper and reached the handler unchanged *)
PayloadRoundTripWitness ==
    /\ pc = "done"
    /\ input = Payload(<<"o">>, <<"p", NL, "p">>)
    /\ Len(calls) = 1
    /\ calls[1].payload = <<"p", NL, "p">>

(* what the registry's handler returned on success, as a string *)
HandlerString ==
    CASE target.kind = "tool"    -> returned.out
      [] target.kind = "action"  -> MarshalResponse(returned.resp)
      [] OTHER                   -> <<>>

(* C7: when the requested id is registered and its handler succeeds, the
   handler received exactly the decoded payload and the output is the
   handler's returned string byte for byte. *)
SuccessOutputVerbatim ==
    (pc = "done" /\ calls # <<>> /\ returned.err.nil)
        => /\ calls[1].payload = payload
           /\ stdout = HandlerString
           /\ stderr = <<>>

(* C8: when the invoked handler reports an error, the text the host receives
   is exactly that error's message. *)
HandlerErrorVerbatim ==
    (pc = "done" /\ calls # <<>> /\ ~returned.err.nil)
        => HostText = returned.err.msg

(* C9: Extension.Execute returns exactly one of an output and an error: a
   non-nil error comes with the empty string, a nil error with the handler's
   or the manifest's output. *)
ExactlyOneResult ==
    (unit = "extension" /\ pc \in {"return", "respond", "done"})
        => /\ ~err.nil => output = <<>>
           /\ (err.nil /\ target.kind = "action") => output = MarshalResponse(returned.resp)
           /\ (err.nil /\ target.kind = "command") => output = <<>>
           /\ (err.nil /\ target.kind = "describe")
                 => output = MarshalExtension(JarblesExtension(ext, actions, commands))
           /\ err.nil => Resolved
           /\ (calls # <<>>) => (err.nil <=> returned.err.nil)

(* a handler returned a response together with an error; Execute passed on the error alone *)
ExactlyOneResultWitness ==
    /\ unit = "extension"
    /\ pc = "done"
    /\ calls # <<>>
    /\ ~returned.resp.nil
    /\ ~returned.err.nil
    /\ ~err.nil
    /\ output = <<>>

(* one step of the process: forward in the dispatcher's order, or one more
   registration, or one more payload line consumed *)
Forward ==
    \/ Rank(pc') > Rank(pc)
    \/ pc' = pc /\ pc = "register" /\ nreg' = nreg + 1
    \/ pc' = pc /\ pc = "scanPayload" /\ Len(rest') < Len(rest)

(* C10: the dispatcher only moves forward, AwaitingRequest -> Decoding ->
   Resolving -> Executing -> Encoding -> Done, with no loop back; it always
   can take its next step until Done; it reads the whole stream as one
   request; it invokes at most one handler, at most once. *)
SingleRequestRun ==
    /\ [][Forward]_vars
    /\ [](pc = "done" \/ ENABLED Next)
    /\ [](Len(calls) <= 1)
    /\ [](Decoded => rest = <<>>)
    /\ [](calls # <<>> => DispatcherState(pc) \in {"Encoding", "Done"})

(* a request with a two-line payload ran one handler and reached Done *)
SingleRequestRunWitness ==
    /\ pc = "done"
    /\ Len(lines) = 2
    /\ Len(calls) = 1
    /\ rest = <<>>

(* Execute failed before route was called: the logger could not be created,
   or the scanner reported an error *)
FailedBeforeRouting ==
    /\ pc \in {"return", "respond", "done"}
    /\ ~Resolved

(* C11: a failure before Executing skips Executing: when decoding the stream
   fails, route is never called, no handler is invoked even if the first line
   names a registered operation, and Execute returns the scanning error. *)
DecodeFailureSkipsExecuting ==
    /\ (readFail /\ logState # "unopened" /\ Rank(pc) > Rank("scanPayload"))
          => /\ FailedBeforeRouting
             /\ calls = <<>>
             /\ routed = NoResult
             /\ IF unit = "extension"
                THEN err.kind = "scan" /\ output = <<>>
                ELSE output = <<"error while scanning: ", "read error">>
    /\ FailedBeforeRouting
          => /\ calls = <<>>
             /\ IF unit = "extension" THEN err.kind \in {"scan", "logger"}
                ELSE output[1] \in {"error while scanning: ", "error while creating logger: "}
    /\ DispatcherState(pc) = "Executing" => ~readFail

(* the stream named the registered action "a", the read failed, and the
   process finished without calling it *)
DecodeFailureWitness ==
    /\ pc = "done"
    /\ unit = "extension"
    /\ readFail
    /\ operationId = <<"a">>
    /\ <<"a">> \in DOMAIN actions
    /\ err.kind = "scan"
    /\ calls = <<>>
    /\ stderr # <<>>

(* the id is stored both in the action registry and in the command registry *)
ActionAndCommand(id) ==
    /\ \E k \in DOMAIN actions : actions[k].Id = id
    /\ \E k \in DOMAIN commands : commands[k].Id = id

(* C12: when the same id is registered both as an action and as a command,
   dispatching that id invokes the action's handler and never the command's,
   whichever of the two was registered first. *)
ActionShadowsCommand ==
    (unit = "extension" /\ Resolved /\ operationId # Describe
       /\ ActionAndCommand(operationId))
        => /\ target.kind = "action"
           /\ actions[target.id].Id = operationId
           /\ \A c \in Range(calls) :
                  /\ c.fn = actions[target.id].Function
                  /\ \A k \in DOMAIN commands : c.fn # commands[k].Function
           /\ Routed => routed = ActionFunction(returned)

(* "a" was registered as an action and then as a command; the request "a"
   ran the action's handler *)
ActionShadowsCommandWitness ==
    /\ pc = "done"
    /\ operationId = <<"a">>
    /\ Len(history) = 2
    /\ history[1].kind \in {"action", "navigation", "cron"}
    /\ history[2].kind = "command"
    /\ history[1].id = <<"a">>
    /\ history[2].id = <<"a">>
    /\ Len(calls) = 1
    /\ calls[1].fn = history[1].fn

(* the registration kinds that write to the action registry *)
ActionKinds == {"action", "navigation", "cron"}

(* the ExtensionAction a registration call builds on the registry acts *)
Descriptor(e, acts, call) ==
    CASE call.kind = "navigation" ->
             NavigationAction(e, acts, call.raw, NavName, NavDescription, call.fn)
      [] call.kind = "action" -> PlainAction(e, acts, call.raw, call.fn)
      [] call.kind = "cron"   -> CronAction(e, acts, call.raw, call.cron, call.fn)

(* the action registry after a sequence of registration calls *)
RECURSIVE ReplayActions(_, _)
ReplayActions(e, cs) ==
    IF cs = <<>> THEN EmptyMap
    ELSE LET acts == ReplayActions(e, SubSeq(cs, 1, Len(cs) - 1))
             last == cs[Len(cs)]
         IN  IF last.kind \in ActionKinds
             THEN addAction(acts, Descriptor(e, acts, last))
             ELSE acts

(* the registration sequences that differ from h only in the spelling of the
   id arguments: the same calls in the same order, every entry stored under
   the same id *)
SameOrderSameIds(h) ==
    { [j \in DOMAIN h |-> [h[j] EXCEPT !.raw = r[j]]] :
        r \in { q \in [DOMAIN h -> RawIds] :
                  \A j \in DOMAIN h :
                      h[j].kind \in ActionKinds
                        => Descriptor(ext, EmptyMap, [h[j] EXCEPT !.raw = q[j]]).Id = h[j].id } }

(* registration j is the last one that wrote its id to the action registry *)
LastWriter(j) ==
    /\ history[j].kind \in ActionKinds
    /\ ~ \E l \in DOMAIN history :
           l > j /\ history[l].kind \in ActionKinds /\ history[l].id = history[j].id

(* C13: looking up the id a descriptor was stored under returns the descriptor
   with every caller-supplied field as supplied, and its urlPath and index are
   functions of that id and of the registration order only: registering the
   same kinds in the same order under the same ids gives the same urlPath and
   index. *)
RoundTripRegistration ==
    unit = "extension" =>
      \A j \in DOMAIN history :
        LastWriter(j) =>
          /\ Cardinality(ActionById(actions, history[j].id)) = 1
          /\ \A d \in ActionById(actions, history[j].id) :
                /\ d.Function = history[j].fn
                /\ d.Nav = (history[j].kind = "navigation")
                /\ d.Cron = history[j].cron
                /\ d.Name = (IF d.Nav THEN NavName ELSE history[j].raw)
                /\ d.Description = (IF d.Nav THEN NavDescription ELSE history[j].raw)
                /\ \A alt \in SameOrderSameIds(history) :
                      \A d2 \in ActionById(ReplayActions(ext, alt), history[j].id) :
                         /\ d2.Index = d.Index
                         /\ d2.UrlPath = d.UrlPath

(* C14: after any sequence of AddNavigation, AddAction, AddCommand and AddCron
   calls, every id stored in the registry is slug-normalized: slugify(id) = id
   for the key and the Id field of every action and every command. *)
StoredIdsSlugified ==
    unit = "extension" =>
      /\ \A k \in DOMAIN actions :
             slugify(k) = k /\ slugify(actions[k].Id) = actions[k].Id
      /\ \A k \in DOMAIN commands :
             slugify(k) = k /\ slugify(commands[k].Id) = commands[k].Id

(* C15: the urlPath of every registered action is "/extension/action/" + the
   unit's id + "/" + the id the action is stored under. *)
UrlPathFromStoredId ==
    unit = "extension" =>
      \A k \in DOMAIN actions :
         actions[k].UrlPath = <<"/extension/action/">> \o ext.Id \o <<"/">> \o k

(* the number of AddAction and AddNavigation calls made before call j *)
PositionAmongActions(j) ==
    Cardinality({i \in DOMAIN history :
                    i < j /\ history[i].kind \in {"action", "navigation"}})

(* C16: the index of an action or navigation entry is its insertion position
   among AddAction and AddNavigation calls only, cron registrations not
   counted; the index of a cron entry is -1. *)
IndexCountsActionsOnly ==
    unit = "extension" =>
      \A j \in DOMAIN history :
        LastWriter(j) =>
          \A d \in ActionById(actions, history[j].id) :
             d.Index = (IF history[j].kind = "cron" THEN -1 ELSE PositionAmongActions(j))

(* the ids a caller or a host may ask for *)
LookupIds == RawIds \cup OpLines \cup {<<"a", "-">>, <<"a", "-", "B">>}

(* C17: lookup is an exact, case-sensitive match with no normalization: an id
   that is not literally a stored id is not found by ActionById and resolves to
   no handler in route, even when slugify maps it to a stored id or it is a
   prefix of one; a found entry has exactly the requested id. *)
LookupIsExact ==
    unit = "extension" =>
      /\ \A id \in LookupIds :
             /\ id \notin DOMAIN actions => ActionById(actions, id) = {}
             /\ id \in DOMAIN actions => ActionById(actions, id) = {actions[id]}
             /\ \A a \in ActionById(actions, id) : a.Id = id
      /\ (Resolved /\ operationId # Describe
            /\ operationId \notin DOMAIN actions /\ operationId \notin DOMAIN commands)
           => target.kind = "unknown" /\ calls = <<>>
      /\ target.kind = "action" => actions[target.id].Id = operationId
      /\ target.kind = "command" => commands[target.id].Id = operationId

(* the request "a b" reached an extension that stores "a-b", which is what
   slugify makes of "a b", and was refused *)
LookupIsExactWitness ==
    /\ pc = "done"
    /\ unit = "extension"
    /\ operationId = <<"a", " ", "b">>
    /\ slugify(operationId) \in DOMAIN actions
    /\ operationId \notin DOMAIN actions
    /\ ActionById(actions, operationId) = {}
    /\ target.kind = "unknown"
    /\ calls = <<>>

(* the manifests describe can return for the registry, one for every order
   in which its loop can visit the action map *)
Manifests ==
    { MarshalExtension([JarblesExtension(ext, actions, commands)
                            EXCEPT !.Actions = FillActions(actions, o)]) :
        o \in Orders(DOMAIN actions) }

(* the describe step of route *)
DescribeStep ==
    (unit = "extension" /\ pc = "execute" /\ target.kind = "describe")
        => /\ UNCHANGED registryVars
           /\ routed'.err = NoError
           /\ Manifests = {routed'.output}

(* C18: building the manifest is a pure function of the registry: describe
   leaves the unit's id, name, description, actions and commands unchanged,
   the manifest does not depend on the order the maps are visited in, and
   describing the registry again returns the identical manifest. *)
DescribeIsPure ==
    /\ [][DescribeStep]_vars
    /\ []((unit = "extension" /\ Routed /\ target.kind = "describe")
            => /\ describe(ext, actions, commands) = routed
               /\ Manifests = {routed.output})

(* describe answered for a registry of two actions and the registry is as the
   registration calls left it *)
DescribeIsPureWitness ==
    /\ pc = "done"
    /\ unit = "extension"
    /\ target.kind = "describe"
    /\ Cardinality(DOMAIN actions) = 2
    /\ actions = ReplayActions(ext, history)
    /\ stdout = describe(ext, actions, commands).output

(* the command registry after a sequence of registration calls *)
RECURSIVE ReplayCommands(_)
ReplayCommands(cs) ==
    IF cs = <<>> THEN EmptyMap
    ELSE LET cmds == ReplayCommands(SubSeq(cs, 1, Len(cs) - 1))
             last == cs[Len(cs)]
         IN  IF last.kind = "command"
             THEN addCommand(cmds, Command(last.raw, last.fn))
             ELSE cmds

(* C19: the registry is immutable once registration is over: no step of
   Respond, Execute or route, whatever the id, the payload and the outcome,
   changes the unit, its actions, commands or tools; the registry is at all
   times the one the registration calls built. *)
RegistryFrozen ==
    /\ [][pc # "register" => UNCHANGED registryVars]_vars
    /\ [](unit = "extension"
            => /\ actions = ReplayActions(ext, history)
               /\ commands = ReplayCommands(history)
               /\ ext = NewExtension(ext.Name, ext.Description))

(* a handler was dispatched and failed, and both registered operations are
   still in the registry *)
RegistryFrozenWitness ==
    /\ pc = "done"
    /\ unit = "extension"
    /\ Len(history) = 2
    /\ Len(calls) = 1
    /\ ~returned.err.nil
    /\ Cardinality(DOMAIN actions) + Cardinality(DOMAIN commands) = 2
    /\ actions = ReplayActions(ext, history)
    /\ commands = ReplayCommands(history)

(* C20: for a describe request on a registry that holds a cron action with
   the well-formed expression "0 * * * *", the manifest lists that action with
   a non-empty cronSummary. *)
CronSummaryPresent ==
    (unit = "extension" /\ Routed /\ target.kind = "describe")
        => LET je == JarblesExtension(ext, actions, commands)
           IN  /\ routed.output = MarshalExtension(je)
               /\ \A k \in DOMAIN actions :
                      actions[k].Cron = GoodCron
                        => k \in DOMAIN je.Actions /\ je.Actions[k].CronSummary # <<>>

(* C21: for a cron action whose expression is malformed, the manifest's
   cronSummary of that action is the raw expression string, and building the
   manifest does not fail. *)
CronSummaryDegrades ==
    (unit = "extension" /\ Routed /\ target.kind = "describe")
        => LET je == JarblesExtension(ext, actions, commands)
           IN  /\ routed.err.nil
               /\ routed.output = MarshalExtension(je)
               /\ \A k \in DOMAIN actions :
                      actions[k].Cron = BadCron
                        => k \in DOMAIN je.Actions /\ je.Actions[k].CronSummary = BadCron

(* the text holds the token t *)
HasToken(text, t) == \E i \in DOMAIN text : text[i] = t

(* C22: a collection with no entries is absent from the manifest: the key
   "actions" appears only if an action is registered, the key "commands" only
   if a command is registered. *)
EmptyCollectionsAbsent ==
    (unit = "extension" /\ Routed /\ target.kind = "describe")
        => /\ HasToken(routed.output, ",\"actions\":{") => DOMAIN actions # {}
           /\ HasToken(routed.output, ",\"commands\":{") => DOMAIN commands # {}

(* C23: in the unit whose Respond writes errors to standard error, every
   failed request leaves standard output empty, puts the error text on
   standard error, and ends the process with a non-zero exit status. *)
FailureOnErrorChannel ==
    (unit = "extension" /\ pc = "done" /\ ~err.nil)
        => /\ stdout = <<>>
           /\ stderr # <<>>
           /\ exitStatus # 0

(* C24: the log file NewLibLogger opened is closed on every exit path of
   Execute (success, handler error, unknown operation, decode error) before
   Execute returns. *)
LogClosedOnReturn ==
    (Returned /\ logState # "unopened") => logState = "closed"

(* the stream ends before a payload section: it has at most the id line and
   the delimiter line *)
NoPayloadSection(data) == RawLineCount(data) <= 2

(* C25: if the stream ends before a payload section exists, after the id line
   or after the delimiter line, the payload is the empty string, no decode
   error is raised, and the registered handler of the id is invoked with the
   empty string. *)
EarlyEndEmptyPayload ==
    (~readFail /\ NoPayloadSection(input) /\ logState # "unopened")
        => /\ lines = <<>>
           /\ payload = <<>>
           /\ err.kind # "scan"
           /\ Rank(pc) > Rank("scanPayload") => Decoded
           /\ \A c \in Range(calls) : c.payload = <<>>
           /\ (unit = "extension" /\ Routed /\ operationId # Describe
                 /\ operationId \in DOMAIN actions)
                 => Len(calls) = 1 /\ calls[1].fn = actions[operationId].Function

(* the stream "o" ended right after the id line and the handler of "o" ran
   with the empty payload *)
EarlyEndWitness ==
    /\ pc = "done"
    /\ input = <<"o">>
    /\ ~readFail
    /\ Len(calls) = 1
    /\ calls[1].payload = <<>>
    /\ returned.err.nil
    /\ err.nil

(* what Execute returns for a scanning error *)
ScanErrorResult ==
    IF unit = "extension"
    THEN err.kind = "scan" /\ output = <<>>
    ELSE err.nil /\ output = <<"error while scanning: ", "read error">>

(* C26: a read failure on the underlying stream, at the id line, the delimiter
   line or a payload line, yields the decode error and route is not called; a
   stream that merely ends yields no decode error and, without a payload
   section, the empty payload; the two outcomes never coincide. *)
ReadFailureIsDecodeError ==
    (logState # "unopened" /\ Rank(pc) > Rank("scanPayload"))
        => /\ readFail => /\ ~Decoded
                           /\ calls = <<>>
                           /\ ScanErrorResult
           /\ ~readFail => /\ Decoded
                            /\ ~ScanErrorResult
                            /\ NoPayloadSection(input) => payload = <<>>
           /\ ScanErrorResult <=> readFail

(* the read failed right after the id line "o" and the process reported the
   scanning error without calling the handler of "o" *)
ReadFailureWitness ==
    /\ pc = "done"
    /\ readFail
    /\ input = <<"o", NL>>
    /\ operationId = <<"o">>
    /\ ScanErrorResult
    /\ calls = <<>>

(* C27: slugify is idempotent, slugify(slugify(s)) = slugify(s), and every
   result holds only lowercase ASCII letters, digits and hyphens. *)
SlugifyIdempotent ==
    /\ pc = "named"
          => /\ ext.Name = input
             /\ ext.Id = slugify(input)
             /\ Range(ext.Id) \subseteq Range(Lowers) \cup Range(Digits) \cup {"-"}
    /\ pc = "renamed"
          => /\ ext.Name = slugify(input)
             /\ ext.Id = ext.Name
             /\ Range(ext.Id) \subseteq Range(Lowers) \cup Range(Digits) \cup {"-"}

(* the name "Z !" became "z-", and slugify left "z-" as it was *)
SlugifyIdempotentWitness ==
    /\ pc = "renamed"
    /\ input = <<"Z", " ", "!">>
    /\ ext.Name = <<"z", "-">>
    /\ ext.Id = <<"z", "-">>

(* runCommand is between its first and its last line *)
InRunCommand == pc \in {"start", "readErr", "readOut", "wait"}

(* C28: when the external process a handler spawned exits with a non-zero
   status, the error message the handler returns is that process's
   standard-error text, verbatim. *)
StderrVerbatim ==
    (pc = "returned" /\ cmd.waited /\ cmd.state = "exited" /\ cmd.code # 0)
        => /\ ~returned.err.nil
           /\ returned.err.msg = cmd.text

(* C29: every external process is bounded by the timeout of its context:
   runCommand, once entered, eventually returns, whatever the child does, a
   child that never exits and one that fills its standard-output pipe while
   standard error is still being read included. *)
RunCommandReturns == InRunCommand ~> ~InRunCommand

(* a child that had more to write to standard output than the pipe holds was
   killed at the deadline, and runCommand returned with the pipe's content *)
RunCommandReturnsWitness ==
    /\ pc = "returned"
    /\ cmd.waited
    /\ cmd.state = "killed"
    /\ cmd.deadline = "cancelled"
    /\ cmd.outLeft > 0
    /\ cmd.outdata = PipeCap

(* the directory tree under root: root itself and every path below it *)
Inside(path, root) ==
    \/ path = Clean(root)
    \/ HasPrefix(path, Clean(root) \o <<"/">>)

(* C30: a nil-error result of safePath or safeDir is a path inside the safe
   directory tree; an input that resolves outside it, through ".." elements or
   to a sibling directory whose name starts with the safe directory's name,
   yields an error. *)
SafePathContains ==
    pc \in {"safePath", "safeDir"}
        => (returned.err.nil => Inside(returned.out, input.safeDir))

(* the ids the registration calls stored entries under, by registry *)
StoredIds(kinds) == {history[j].id : j \in {i \in DOMAIN history : history[i].kind \in kinds}}

(* C31: after any sequence of registrations on an Extension, the manifest
   describe returns lists exactly the operations dispatch can resolve: the keys
   of its actions map are the registered action ids, the keys of its commands
   map are the registered command ids, the id field of every entry is its key,
   every listed id resolves in route, and every id route resolves to an action
   or a command is listed. *)
ManifestListsRegistry ==
    (unit = "extension" /\ Routed /\ target.kind = "describe")
        => LET je == JarblesExtension(ext, actions, commands)
           IN  /\ routed.output = MarshalExtension(je)
               /\ DOMAIN je.Actions = StoredIds(ActionKinds)
               /\ DOMAIN je.Commands = StoredIds({"command"})
               /\ \A k \in DOMAIN je.Actions : je.Actions[k].Id = k
               /\ \A k \in DOMAIN je.Commands : je.Commands[k].Id = k
               /\ \A k \in DOMAIN je.Actions \cup DOMAIN je.Commands :
                      \A t \in route(k, actions, commands) : t.kind # "unknown"
               /\ \A id \in RawIds \cup OpLines \cup StoredIds(ActionKinds \cup {"command"}) :
                      \A t \in route(id, actions, commands) :
                         /\ t.kind = "action" => id \in DOMAIN je.Actions
                         /\ t.kind = "command" => id \in DOMAIN je.Commands

(* describe answered for a registry that AddAction("a b") and AddCommand("A")
   built: the manifest lists the action "a-b" and the command "a" *)
ManifestListsRegistryWitness ==
    /\ unit = "extension"
    /\ pc = "done"
    /\ target.kind = "describe"
    /\ Len(history) = 2
    /\ history[1].kind = "action" /\ history[1].raw = <<"a", " ", "b">>
    /\ history[2].kind = "command" /\ history[2].raw = <<"A">>
    /\ DOMAIN JarblesExtension(ext, actions, commands).Actions = {<<"a", "-", "b">>}
    /\ DOMAIN JarblesExtension(ext, actions, commands).Commands = {<<"a">>}
    /\ stdout = MarshalExtension(JarblesExtension(ext, actions, commands))

(* C32: after any sequence of AddTool calls on an Assistant, repeated
   registration of one name included, the tool list of the manifest holds
   exactly one entry for every name dispatch can resolve, the entry of the
   registration dispatch would invoke, and no entry for any other name. *)
ToolListMatchesRegistry ==
    (unit = "assistant" /\ Routed /\ target.kind = "describe")
        => /\ routed.output = describeAssistant(AssistantDescription, toolList).output
           /\ \A name \in DOMAIN tools :
                  /\ Cardinality({i \in DOMAIN toolList : toolList[i].Name = name}) = 1
                  /\ \A i \in DOMAIN toolList :
                         toolList[i].Name = name => toolList[i] = ToolOf(tools[name])
           /\ \A i \in DOMAIN toolList : toolList[i].Name \in DOMAIN tools

(* C33: after any sequence of AddAction, AddNavigation and AddCron calls,
   re-registration of an id that is already present included, no two
   registered non-cron actions have the same index. *)
IndexesAreDistinct ==
    unit = "extension" =>
      \A k1, k2 \in DOMAIN actions :
         (k1 # k2 /\ actions[k1].Cron = <<>> /\ actions[k2].Cron = <<>>)
            => actions[k1].Index # actions[k2].Index

(* C34: an empty input stream, one with no lines at all, never invokes a
   handler: whatever ids were passed to the registration calls, Execute on it
   returns the unknown-operation error. *)
EmptyStreamInvokesNothing ==
    (unit = "extension" /\ input = <<>> /\ ~readFail /\ Returned /\ logState # "unopened")
        => /\ calls = <<>>
           /\ target.kind = "unknown"
           /\ err = UnknownOperation(<<>>)
           /\ output = <<>>

(* C35: the link target of every card added with ActionID a is the urlPath of
   the action registered with AddAction under the same id string a, whether
   AddCard came before or after that AddAction and whether or not a is in slug
   form. *)
CardLinksToAction ==
    \A i \in DOMAIN cards :
       \A j \in DOMAIN history :
          (history[j].kind = "action" /\ history[j].raw = cards[i].ActionID /\ LastWriter(j))
             => cards[i].Href = actions[history[j].id].UrlPath

(* C36: NavigationByName is deterministic: for a fixed registry and name,
   every call returns the same descriptor or not-found, whatever the order the
   action map is visited in, also when several navigation entries were
   registered with one display name under different ids. *)
NavigationByNameDeterministic ==
    pc = "looked"
        => NavigationByName(actions, input)
              = (IF returned.out = <<>> THEN {} ELSE {returned.out[1]})

(* C37: the config store round-trips: after ConfigSet(k, v) returned no
   error, ConfigGet(k, d) returns v, for every key, value and default, keys
   that contain "=" and values that contain a newline included. *)
ConfigRoundTrip ==
    (pc = "got" /\ err.nil /\ input.asked = input.key)
        => /\ returned.err.nil
           /\ returned.out = input.value

(* the keys a caller can ask for or find in the file *)
KnownKeys == ConfigKeys \cup DOMAIN ConfigMap(input.before) \cup DOMAIN ConfigMap(config)

(* C38: ConfigSet(k, v) changes only key k: for every other key, ConfigGet and
   ConfigMap give the same before and after the call, the number of stored
   lines grows by at most one, and on an error return before the file is
   truncated the stored contents are unchanged. *)
ConfigSetFrame ==
    (history # <<>> /\ input.before.exists)
        => /\ err.nil =>
                 /\ \A k \in KnownKeys \ {input.key} :
                        /\ ConfigGet(config, k, DefaultValue)
                              = ConfigGet(input.before, k, DefaultValue)
                        /\ k \in DOMAIN ConfigMap(config) <=> k \in DOMAIN ConfigMap(input.before)
                        /\ k \in DOMAIN ConfigMap(config)
                              => ConfigMap(config)[k] = ConfigMap(input.before)[k]
                 /\ Len(ScanAll(config.data)) <= Len(ScanAll(input.before.data)) + 1
           /\ err.kind \in BeforeTruncate => config.data = input.before.data

====
